---- MODULE Spec2Model ----
(***************************************************************************)
(* Model of the vix websocket module: the per-connection Session           *)
(* (src/src/session.cpp), the high-level Server with its session registry  *)
(* and rooms (src/include/vix/websocket/server.hpp), the low-level engine  *)
(* (src/src/websocket.cpp) and the long-polling manager                    *)
(* (src/src/LongPolling.cpp, src/include/vix/websocket/LongPolling.hpp).   *)
(*                                                                         *)
(* The specifications share the module's variables; each one runs the     *)
(* actions of one component and keeps the variables of the others at their *)
(* initial value:                                                          *)
(*   Spec, SpecRooms   the server with two clients, rooms and broadcasts   *)
(*                     (Spec with the idle timer on, SpecRooms with it off)*)
(*   SpecSession, SpecLive, SpecWrite   one session and its operations     *)
(*   SpecLP, SpecBridge, SpecApp   long polling, its bridge, the dispatcher*)
(*   SpecStore, SpecChat, SpecProto   the store, the chat handler, JSON    *)
(*   SpecClient, SpecRuntime   the client and the attached runtime         *)
(***************************************************************************)
EXTENDS Integers, Sequences, FiniteSets, TLC

(***************************************************************************)
(* Bounds of the model                                                     *)
(***************************************************************************)
\* the universe of connections, pool threads and I/O threads
NumSessions == 2
NumWorkers == 2
NumIoThreads == 2
NumTexts == 1
MaxTimerFired == 1
\* Spec: the server with NumSessions clients
MaxBroadcasts == 1
\* SpecSession: one client
SessBroadcasts == 2
SessSends == 1
\* SpecWrite: the replies of the handler
WriteSends == 2
\* SpecLP
MaxB == 2
MaxPushes == 3
MaxPolls == 2
MaxTime == 2
sessionTtl == 1
\* the message store: wall-clock values, append calls, query limits
MaxClock == 1
MaxAppends == 3
MaxLimit == 2
\* SpecChat: broadcasts made by the chat handler
MaxChat == 3
\* SpecClient: reconnect threads, connection attempts
MaxReconnects == 2
MaxAttempts == 2
MaxClientSends == 3
\* SpecRuntime: the threads that call AttachedRuntime::stop
NumStopCallers == 3

Sessions == 1..NumSessions
Workers == 1..NumWorkers
Texts == 1..NumTexts
Rooms == {"a", "b"}
Sids == {"room:a", "broadcast"}

\* Config::idleTimeout default, seconds
defaultIdleTimeout == 60
\* LongPollingManager's default maxBufferPerSession
defaultMaxBuffer == 256
\* the chat application's history size
HISTORY_LIMIT == 50
\* generate_id: std::setw(20)
idWidth == 20

VARIABLES
    \* ---- configuration and environment ----
    env,         \* [conns, idleTimeout, workers, sends, bcasts, frames, rawHandler,
                 \* typedHandler, closeReasons, writeEcs, chatApp]: the clients that connect,
                 \* cfg_.idleTimeout, the pool's threads, the caps on calls, the text
                 \* frames the clients send, whether on_message / on_typed_message
                 \* were registered, the reasons the application passes to close(),
                 \* the error codes an async_write completes with, and whether the
                 \* typed handler is the chat application's
    \* ---- Session (one entry per connection) ----
    hs,          \* "none" | "handshake" | "open" | "failed": async_accept progress
    closing_,    \* Session::closing_
    sockOpen,    \* ws_.next_layer().is_open()
    readOp,      \* "none" | "pending" (async_read outstanding) | "handler" (on_read running)
    timerArmed,  \* idleTimer_ has an outstanding async_wait
    timerFired,  \* expired waits whose handler is queued on the io_context
    closeOp,     \* async_close outstanding
    inflight,    \* number of async_write operations outstanding on ws_
    \* ---- Server ----
    sessions_,   \* Server::sessions_ (vector of weak_ptr)
    rooms_,      \* Server::rooms_ (map room -> vector of weak_ptr)
    \* ---- executor (thread pool) ----
    execQueue,   \* tasks posted by send_text, not yet taken by a worker
    worker,      \* per worker thread: the task it is running (<<>> when idle)
    \* ---- history (observations, not program state) ----
    sendLog,     \* per session: the send_text calls that posted, in call order
    wire,        \* per session: the call numbers in the order async_write started
    hooks,       \* per session: how often the open / close / error hook ran
    joined,      \* per session: rooms joined and not left (membership as the API was called)
    bcastCount,  \* broadcasts made so far
    lastBcast,   \* the last broadcast: its room, text and send_text invocations
    bcastLog,    \* per room: the texts of the broadcast_room_text calls, in call order
    disp,        \* per session: <<>> or the dispatch of the last frame read
                 \* [frame, raw, typed, errors0, pushed0]
    idleHist,    \* per session: [readSinceArm: a frame was read and its on_read has not
                 \* returned yet, unreadAtExpiry: the expiry whose handler is queued
                 \* found no frame read since the timer was armed, closeCode: <<>> or
                 \* <<the close code passed to async_close>>]
    writeErr,    \* per session: an async_write completed with an error
    \* ---- WebSocketMetrics ----
    errors_total,
    \* ---- LongPollingManager ----
    lpSessions,  \* sessions_: sid -> <<>> (absent) or <<[lastSeen, buffer]>>
    lpB,         \* maxBufferPerSession_
    lpMetrics,   \* the lp_* fields of WebSocketMetrics
    lpNow,       \* steady_clock::now()
    lpSweep,     \* sweep_expired: <<>> or <<now sampled before the lock>>
    lpHist,      \* history: pushes, poll results and the last operation
    \* ---- LongPollingBridge ----
    bridge,      \* [httpToWs: the forward hook is set, call: <<>> or the send_from_http
                 \* call in progress, last: <<>> or the last call that returned]
    \* ---- SqliteMessageStore ----
    store,       \* the messages table: the set of its rows
                 \* [id, kind, room, type, ts, payload]; room is <<>> for NULL
    clock,       \* std::chrono::system_clock::now(), in microseconds
    stHist,      \* history: [assigned: the ids generate_id gave, in call order,
                 \* appends: the number of append calls, last: the last call]
    \* ---- the chat application (examples/advanced/src/server.cpp) ----
    ioExited,    \* I/O threads whose ioContext_->run() was left by an exception
    proto,       \* <<>> or [in, text, out]: an envelope, the text serialize gave for
                 \* it, and what parse gave for that text
    \* ---- Client (client.hpp) ----
    client,      \* the atomics started_, connected_, closing_, alive_, autoReconnect_,
                 \* reconnectScheduled_, heartbeatEnabled_, heartbeatStop_; hbThread:
                 \* heartbeatThread_ is running; ioRunning: ioc_ is run by ioThread_;
                 \* ops: the resolve, connect, handshake, read and ping outstanding
                 \* on ioc_; posted: the send_text lambdas posted to ioc_;
                 \* writeQueue_, writeInProgress_; writing: the texts whose
                 \* async_write is outstanding; history: calls (the texts passed
                 \* to send_text), wrote (the texts whose write was started), pops
                 \* (<<text popped, text whose write completed>>), openedAfterClose,
                 \* attempts (pipelines started), lost (an established connection
                 \* failed and no new pipeline started since), closeCalled
    reconn,      \* per detached reconnect thread: "none" | "sleep" | "woke" |
                 \* "init_io" | "join_hb"
    clEc,        \* history: the error code the last step's completion handler got,
                 \* "none" after any other step of the client
    \* ---- AttachedRuntime (AttachedRuntime.hpp) ----
    rt,          \* stopped_ of the runtime, stopRequested_ of the engine, io: the
                 \* engine's I/O threads ("none" | "running" | "finished"), joined:
                 \* they were joined; history: stops, the stop_async calls made
    rtPc,        \* where each thread is: thread 0 runs listen_blocking, the others
                 \* call AttachedRuntime::stop
    chat         \* per session, history: <<>> or the last run of the typed handler
                 \* [type, room, text, threw, history, sent, appended, bcast, errors0]
                 \* for the frame being handled or handled last

wsVars == <<env, hs, closing_, sockOpen, readOp, timerArmed, timerFired, closeOp, inflight,
            sessions_, rooms_, execQueue, worker,
            sendLog, wire, hooks, joined, bcastCount, lastBcast,
            bcastLog, disp, idleHist, writeErr, errors_total>>
dispVars == <<bcastLog, disp, idleHist, writeErr, errors_total>>
lpVars == <<lpSessions, lpB, lpMetrics, lpNow, lpSweep, lpHist>>
brVars == <<bridge>>
stVars == <<store, clock, stHist>>
chVars == <<ioExited, chat>>
prVars == <<proto>>
clVars == <<client, reconn, clEc>>
rtVars == <<rt, rtPc>>
restVars == <<prVars, clVars, rtVars>>
extVars == <<stVars, chVars, restVars>>
vars == <<wsVars, lpVars, brVars, extVars>>

(***************************************************************************)
(* Session lifetime: std::shared_ptr / std::weak_ptr                       *)
(***************************************************************************)
\* A Session object exists while some shared_ptr holds it: every outstanding
\* asynchronous operation, every queued or running executor task and every
\* running handler captured `self`.
Alive(s) ==
    \/ hs[s] = "handshake"
    \/ readOp[s] # "none"
    \/ timerArmed[s]
    \/ timerFired[s] > 0
    \/ closeOp[s]
    \/ inflight[s] > 0
    \/ \E i \in 1..Len(execQueue) : execQueue[i].s = s
    \/ \E w \in Workers : worker[w] # <<>> /\ worker[w][1].s = s

\* I/O threads busy in a handler that spans several steps (on_read running the
\* message handler); the other completion handlers need a free I/O thread.
IoBusy == Cardinality({s \in Sessions : readOp[s] = "handler"})
IoThreadFree == IoBusy < NumIoThreads - ioExited

(***************************************************************************)
(* Server: session registry and rooms (server.hpp)                         *)
(***************************************************************************)
register_session_skipped(S, s) == S

register_session(S, s) == Append(S, s)

unregister_session(S, s) == SelectSeq(S, LAMBDA x : Alive(x) /\ x # s)

cleanup_sessions_locked(S) == SelectSeq(S, LAMBDA x : Alive(x))

\* erase the keys whose vector became empty
EraseEmpty(R) == [r \in {q \in DOMAIN R : R[q] # <<>>} |-> R[r]]

cleanup_rooms_locked(R) ==
    EraseEmpty([r \in DOMAIN R |-> SelectSeq(R[r], LAMBDA x : Alive(x))])

remove_session_from_all_rooms_locked_noop(R, s) == R

remove_session_from_all_rooms_locked(R, s) ==
    EraseEmpty([r \in DOMAIN R |-> SelectSeq(R[r], LAMBDA x : Alive(x) /\ x # s)])

join_room_nodedup(R, s, r) ==
    LET R0 == cleanup_rooms_locked(R)
        vec == IF r \in DOMAIN R0 THEN R0[r] ELSE <<>>
    IN  [q \in DOMAIN R0 \cup {r} |-> IF q = r THEN Append(vec, s) ELSE R0[q]]

join_room_checks_front(R, s, r) ==
    LET R0 == cleanup_rooms_locked(R)
        vec == IF r \in DOMAIN R0 THEN R0[r] ELSE <<>>
        found == vec # <<>> /\ Alive(vec[1]) /\ vec[1] = s
        vec1 == IF found THEN vec ELSE Append(vec, s)
    IN  [q \in DOMAIN R0 \cup {r} |-> IF q = r THEN vec1 ELSE R0[q]]

join_room(R, s, r) ==
    LET R0 == cleanup_rooms_locked(R)
        vec == IF r \in DOMAIN R0 THEN R0[r] ELSE <<>>
        found == \E i \in 1..Len(vec) : Alive(vec[i]) /\ vec[i] = s
        vec1 == IF found THEN vec ELSE Append(vec, s)
    IN  [q \in DOMAIN R0 \cup {r} |-> IF q = r THEN vec1 ELSE R0[q]]

leave_room_keeps(R, s, r) ==
    IF r \notin DOMAIN R THEN R
    ELSE EraseEmpty([R EXCEPT ![r] = SelectSeq(@, LAMBDA x : Alive(x))])

leave_room_no_erase(R, s, r) ==
    IF r \notin DOMAIN R THEN R
    ELSE [R EXCEPT ![r] = SelectSeq(@, LAMBDA x : Alive(x) /\ x # s)]

\* the expired entries and s are removed from the room's vector; the key is
\* erased when the vector became empty
leave_room(R, s, r) ==
    IF r \notin DOMAIN R THEN R
    ELSE LET vec == SelectSeq(R[r], LAMBDA x : Alive(x) /\ x # s)
         IN  [q \in DOMAIN R \ (IF vec = <<>> THEN {r} ELSE {}) |->
                 IF q = r THEN vec ELSE R[q]]

(***************************************************************************)
(* Session::send_text and the broadcast loops                              *)
(***************************************************************************)
\* st = [q: the executor queue, log: sendLog, calls: the send_text invocations]
\* b is the number of the broadcast that makes the call (0: not a broadcast).
send_text(st, s, t, b) ==
    LET called == [st EXCEPT !.calls = Append(@, [s |-> s, t |-> t])]
    IN  IF closing_[s] THEN called
        ELSE [called EXCEPT
                !.q = Append(@, [s |-> s, n |-> Len(st.log[s]) + 1, t |-> t]),
                !.log[s] = Append(@, [t |-> t, b |-> b])]

\* for (auto &weak : vec) if (auto s = weak.lock()) s->send_text(text);
RECURSIVE BroadcastLoop(_, _, _, _, _)
BroadcastLoop(vec, i, t, b, st) ==
    IF i > Len(vec) THEN st
    ELSE BroadcastLoop(vec, i + 1, t, b,
                       IF Alive(vec[i]) THEN send_text(st, vec[i], t, b) ELSE st)

St0 == [q |-> execQueue, log |-> sendLog, calls |-> <<>>]

Count(seq, x) == Cardinality({i \in 1..Len(seq) : seq[i] = x})
Range(seq) == {seq[i] : i \in 1..Len(seq)}

(***************************************************************************)
(* Initial state: the server is constructed, no connection accepted yet    *)
(***************************************************************************)
InitWS(e) ==
    /\ env = e
    /\ hs = [s \in Sessions |-> "none"]
    /\ closing_ = [s \in Sessions |-> FALSE]
    /\ sockOpen = [s \in Sessions |-> FALSE]
    /\ readOp = [s \in Sessions |-> "none"]
    /\ timerArmed = [s \in Sessions |-> FALSE]
    /\ timerFired = [s \in Sessions |-> 0]
    /\ closeOp = [s \in Sessions |-> FALSE]
    /\ inflight = [s \in Sessions |-> 0]
    /\ sessions_ = <<>>
    /\ rooms_ = <<>>
    /\ execQueue = <<>>
    /\ worker = [w \in Workers |-> <<>>]
    /\ sendLog = [s \in Sessions |-> <<>>]
    /\ wire = [s \in Sessions |-> <<>>]
    /\ hooks = [s \in Sessions |-> [open |-> 0, close |-> 0, error |-> 0]]
    /\ joined = [s \in Sessions |-> {}]
    /\ bcastCount = 0
    /\ lastBcast = [kind |-> "none", room |-> "", text |-> 0, calls |-> <<>>,
                    live |-> {}, members |-> {}, elsewhere |-> {}]
    /\ bcastLog = [r \in Rooms |-> <<>>]
    /\ disp = [s \in Sessions |-> <<>>]
    /\ idleHist = [s \in Sessions |-> [readSinceArm |-> FALSE, unreadAtExpiry |-> FALSE,
                                       closeCode |-> <<>>]]
    /\ writeErr = [s \in Sessions |-> FALSE]
    /\ errors_total = 0

(***************************************************************************)
(* Pieces of handlers shared by several actions                            *)
(***************************************************************************)
\* Router::handle_close -> the Server's on_close lambda: unregister_session,
\* remove_session_from_all_rooms, then the user's close hook.
HandleClose(s) ==
    /\ sessions_' = unregister_session(sessions_, s)
    /\ rooms_' = remove_session_from_all_rooms_locked(rooms_, s)
    /\ hooks' = [hooks EXCEPT ![s].close = @ + 1]
    /\ joined' = [joined EXCEPT ![s] = {}]

\* Session::close: sets closing_, cancels the idle timer, starts async_close.
SessionClose(s) ==
    IF closing_[s]
    THEN UNCHANGED <<closing_, timerArmed, closeOp>>
    ELSE /\ closing_' = [closing_ EXCEPT ![s] = TRUE]
         /\ timerArmed' = [timerArmed EXCEPT ![s] = FALSE]
         /\ closeOp' = [closeOp EXCEPT ![s] = TRUE]

ArmIdleTimer_never(s) == timerArmed[s]

\* Session::arm_idle_timer: the value of timerArmed[s] after the call
ArmIdleTimer(s) == IF env.idleTimeout <= 0 THEN timerArmed[s] ELSE TRUE

(***************************************************************************)
(* Accept and handshake                                                    *)
(***************************************************************************)
\* LowLevelServer::start_accept's handler + handle_client: a Session is
\* created on the accepted socket and run() starts async_accept.
Accept ==
    \E s \in Sessions :
        /\ s <= env.conns
        /\ hs[s] = "none"
        /\ hs' = [hs EXCEPT ![s] = "handshake"]
        /\ sockOpen' = [sockOpen EXCEPT ![s] = TRUE]
        /\ UNCHANGED <<closing_, readOp, timerArmed, timerFired, closeOp, inflight,
                       sessions_, rooms_, execQueue, worker,
                       sendLog, wire, hooks, joined, bcastCount, lastBcast>>
        /\ UNCHANGED <<env, lpVars, brVars, extVars, dispVars>>

\* Session::on_accept
OnAccept ==
    \E s \in Sessions, ok \in BOOLEAN :
        /\ hs[s] = "handshake"
        /\ IoThreadFree
        /\ IF ~ok
           THEN /\ hs' = [hs EXCEPT ![s] = "failed"]
                /\ hooks' = [hooks EXCEPT ![s].error = @ + 1]
                /\ UNCHANGED <<sessions_, timerArmed, readOp>>
           ELSE /\ hs' = [hs EXCEPT ![s] = "open"]
                /\ sessions_' = register_session(sessions_, s)
                /\ hooks' = [hooks EXCEPT ![s].open = @ + 1]
                /\ timerArmed' = [timerArmed EXCEPT ![s] = ArmIdleTimer(s)]
                /\ readOp' = [readOp EXCEPT ![s] = "pending"]
        /\ UNCHANGED <<closing_, sockOpen, timerFired, closeOp, inflight,
                       rooms_, execQueue, worker,
                       sendLog, wire, joined, bcastCount, lastBcast>>
        /\ UNCHANGED <<env, lpVars, brVars, extVars, dispVars>>

(***************************************************************************)
(* Text frames and the JSON envelope (protocol.hpp)                        *)
(***************************************************************************)
\* A JSON value and a vix::json::token share one shape, [t, s, items]: t is the
\* type, s the text of a scalar, items the elements [k, v] of an array (k = "")
\* or the members of an object.  A vix::json::kvs is the flat sequence of its
\* tokens: key, value, key, value, ...
JNull == [t |-> "null", s |-> "", items |-> <<>>]
JStr(x) == [t |-> "string", s |-> x, items |-> <<>>]
JInt(x) == [t |-> "int", s |-> x, items |-> <<>>]
JDbl(x) == [t |-> "double", s |-> x, items |-> <<>>]
JBool(x) == [t |-> "bool", s |-> x, items |-> <<>>]
JArr(vals) == [t |-> "array", s |-> "", items |-> [i \in 1..Len(vals) |-> [k |-> "", v |-> vals[i]]]]
JObj(members) == [t |-> "object", s |-> "", items |-> members]
\* a vix::json::kvs held as a token: its flat list of tokens
TKvs(flat) ==
    [t |-> "object", s |-> "", items |-> [i \in 1..Len(flat) |-> [k |-> "", v |-> flat[i]]]]

\* the member names used, in the order std::map<std::string, json> keeps them
KeyOrder == <<"list", "n", "nested", "room", "text", "user">>

\* the members an object holds after obj[key] = value was run for the string
\* keys of the flat list, pair by pair (a later pair overwrites an earlier one)
ObjMembers(flat, conv(_)) ==
    LET n == Len(flat) - (Len(flat) % 2)
        at(k) == {i \in 1..n : i % 2 = 1 /\ flat[i].t = "string" /\ flat[i].s = k}
        last(k) == CHOOSE i \in at(k) : \A j \in at(k) : j <= i
        keys == SelectSeq(KeyOrder, LAMBDA k : at(k) # {})
    IN  [i \in 1..Len(keys) |-> [k |-> keys[i], v |-> conv(flat[last(keys[i]) + 1])]]

\* detail::ws_token_to_nlohmann
RECURSIVE ws_token_to_nlohmann(_)
ws_token_to_nlohmann(tok) ==
    CASE tok.t = "array" ->
             JArr([i \in 1..Len(tok.items) |-> ws_token_to_nlohmann(tok.items[i].v)])
      [] tok.t = "object" ->
             JObj(ObjMembers([i \in 1..Len(tok.items) |-> tok.items[i].v],
                             ws_token_to_nlohmann))
      [] OTHER -> tok

\* detail::ws_kvs_to_nlohmann
ws_kvs_to_nlohmann(list) == JObj(ObjMembers(list, ws_token_to_nlohmann))

\* detail::nlohmann_payload_to_kvs: strings, booleans, integers, floats and
\* null are copied, an array or an object becomes an empty token
nlohmann_payload_to_kvs(payload) ==
    IF payload.t # "object" THEN <<>>
    ELSE [i \in 1..(2 * Len(payload.items)) |->
            IF i % 2 = 1 THEN JStr(payload.items[(i + 1) \div 2].k)
            ELSE LET val == payload.items[i \div 2].v
                 IN  IF val.t \in {"string", "bool", "int", "double", "null"}
                     THEN val ELSE JNull]

\* A text frame is [json, fields]: json is "invalid" (not JSON), "array" (JSON,
\* not an object) or "object"; fields are the members of the object.
NotJson == [json |-> "invalid", fields |-> <<>>]
JsonArray == [json |-> "array", fields |-> <<>>]
JsonNoType == [json |-> "object", fields |-> [room |-> "a", payload |-> JInt("1")]]
JsonEmptyType == [json |-> "object", fields |-> [type |-> "", payload |-> JInt("1")]]
JsonTyped == [json |-> "object", fields |-> [type |-> "chat.message", payload |-> JInt("1")]]
JsonTypedRoom ==
    [json |-> "object",
     fields |-> [type |-> "chat.message", room |-> "a", payload |-> JInt("1")]]

Frames == {NotJson, JsonArray, JsonNoType, JsonEmptyType, JsonTyped, JsonTypedRoom}

\* nlohmann::json::value(key, std::string{})
JsonValue(fields, key) == IF key \in DOMAIN fields THEN fields[key] ELSE ""

\* JsonMessage::parse: <<>> for std::nullopt, else <<the envelope>>
parse(f) ==
    IF f.json # "object"
    THEN <<>>
    ELSE LET msg == [id |-> JsonValue(f.fields, "id"),
                     kind |-> JsonValue(f.fields, "kind"),
                     ts |-> JsonValue(f.fields, "ts"),
                     room |-> JsonValue(f.fields, "room"),
                     type |-> JsonValue(f.fields, "type"),
                     payload |-> IF "payload" \in DOMAIN f.fields
                                 THEN nlohmann_payload_to_kvs(f.fields["payload"])
                                 ELSE <<>>]
         IN  IF msg.type = "" THEN <<>> ELSE <<msg>>

\* JsonMessage::serialize(const JsonMessage &): the text of j.dump()
serialize(m) ==
    LET names == {"type", "payload"}
                     \cup {k \in {"id", "kind", "ts", "room"} : m[k] # ""}
    IN  [json |-> "object",
         fields |-> [k \in names |->
                        IF k = "payload" THEN ws_kvs_to_nlohmann(m.payload) ELSE m[k]]]

\* JsonMessage::serialize(type, payload, room = {}, id = {}, kind = {}, ts = {})
serialize_type(type, payloadKvs) ==
    serialize([id |-> "", kind |-> "", ts |-> "", room |-> "", type |-> type,
               payload |-> payloadKvs])

\* LongPollingBridge::resolve_session_id without a resolver
resolve_session_id(msg) == IF msg.room # "" THEN "room:" \o msg.room ELSE "broadcast"

\* The Server's on_message lambda for one frame: the handlers it invokes.
on_message(f) ==
    LET parsed == IF env.typedHandler THEN parse(f) ELSE <<>>
    IN  [raw |-> IF env.rawHandler THEN 1 ELSE 0,
         typed |-> IF parsed # <<>>
                   THEN <<[type |-> parsed[1].type, payload |-> parsed[1].payload]>>
                   ELSE <<>>]

\* the application's message handler of session s is running
InHandler(s) ==
    /\ readOp[s] = "handler"
    /\ disp[s] # <<>>
    /\ disp[s][1].raw > 0 \/ disp[s][1].typed # <<>>

(***************************************************************************)
(* Read loop                                                               *)
(***************************************************************************)
\* Session::on_read up to the call of the message handler.  ec = "ok": a frame
\* was read; "closed": ws::error::closed (the stream closed the socket);
\* "error": any other read error.
OnReadBegin ==
    \E s \in Sessions, ec \in {"ok", "closed", "error"}, f \in env.frames :
        /\ readOp[s] = "pending"
        /\ IoThreadFree
        /\ ec = "ok" => (sockOpen[s] /\ ~closing_[s])
        /\ timerArmed' = [timerArmed EXCEPT ![s] = FALSE]
        /\ IF ec = "ok"
           THEN /\ readOp' = [readOp EXCEPT ![s] = "handler"]
                /\ disp' = [disp EXCEPT ![s] =
                                <<[frame |-> f,
                                   raw |-> on_message(f).raw,
                                   typed |-> on_message(f).typed,
                                   errors0 |-> errors_total,
                                   pushed0 |-> lpHist.pushed]>>]
                /\ idleHist' = [idleHist EXCEPT ![s].readSinceArm = TRUE]
                /\ UNCHANGED <<sessions_, rooms_, hooks, joined, sockOpen>>
           ELSE /\ readOp' = [readOp EXCEPT ![s] = "none"]
                /\ sockOpen' = [sockOpen EXCEPT ![s] = IF ec = "closed" THEN FALSE ELSE @]
                /\ HandleClose(s)
                /\ UNCHANGED <<disp, idleHist>>
        /\ UNCHANGED <<hs, closing_, timerFired, closeOp, inflight, execQueue, worker,
                       sendLog, wire, bcastCount, lastBcast, bcastLog, writeErr, errors_total>>
        /\ chat' = [chat EXCEPT ![s] = <<>>]
        /\ UNCHANGED <<env, lpVars, brVars, stVars, ioExited, restVars>>

\* Session::on_read after the message handler returned.
OnReadEnd ==
    \E s \in Sessions :
        /\ readOp[s] = "handler"
        /\ (env.chatApp /\ disp[s][1].typed # <<>>) => chat[s] # <<>>
        /\ IF ~closing_[s]
           THEN /\ timerArmed' = [timerArmed EXCEPT ![s] = ArmIdleTimer(s)]
                /\ readOp' = [readOp EXCEPT ![s] = "pending"]
           ELSE /\ readOp' = [readOp EXCEPT ![s] = "none"]
                /\ UNCHANGED timerArmed
        /\ idleHist' = [idleHist EXCEPT ![s].readSinceArm = FALSE]
        /\ UNCHANGED <<hs, closing_, sockOpen, timerFired, closeOp, inflight,
                       sessions_, rooms_, execQueue, worker,
                       sendLog, wire, hooks, joined, bcastCount, lastBcast,
                       bcastLog, disp, writeErr, errors_total>>
        /\ UNCHANGED <<env, lpVars, brVars, extVars>>

(***************************************************************************)
(* Server API called by the application's message handler of session s     *)
(* (running inside on_read, on an I/O thread)                              *)
(***************************************************************************)
\* Server::join_room
HandlerJoinRoom ==
    \E s \in Sessions, r \in Rooms :
        /\ InHandler(s)
        /\ sessions_' = cleanup_sessions_locked(sessions_)
        /\ rooms_' = join_room(rooms_, s, r)
        /\ joined' = [joined EXCEPT ![s] = @ \cup {r}]
        /\ UNCHANGED <<hs, closing_, sockOpen, readOp, timerArmed, timerFired, closeOp,
                       inflight, execQueue, worker,
                       sendLog, wire, hooks, bcastCount, lastBcast>>
        /\ UNCHANGED <<env, lpVars, brVars, extVars, dispVars>>

\* Server::leave_room
HandlerLeaveRoom ==
    \E s \in Sessions, r \in Rooms :
        /\ InHandler(s)
        /\ rooms_' = leave_room(rooms_, s, r)
        /\ joined' = [joined EXCEPT ![s] = @ \ {r}]
        /\ UNCHANGED <<hs, closing_, sockOpen, readOp, timerArmed, timerFired, closeOp,
                       inflight, sessions_, execQueue, worker,
                       sendLog, wire, hooks, bcastCount, lastBcast>>
        /\ UNCHANGED <<env, lpVars, brVars, extVars, dispVars>>

\* Server::leave_all_rooms
HandlerLeaveAllRooms ==
    \E s \in Sessions :
        /\ InHandler(s)
        /\ rooms_' = remove_session_from_all_rooms_locked(rooms_, s)
        /\ joined' = [joined EXCEPT ![s] = {}]
        /\ UNCHANGED <<hs, closing_, sockOpen, readOp, timerArmed, timerFired, closeOp,
                       inflight, sessions_, execQueue, worker,
                       sendLog, wire, hooks, bcastCount, lastBcast>>
        /\ UNCHANGED <<env, lpVars, brVars, extVars, dispVars>>

\* Session::send_text called on the handler's own session (a reply, or the
\* Router's default echo).
HandlerSendText ==
    \E s \in Sessions, t \in Texts :
        /\ InHandler(s)
        /\ Len(sendLog[s]) < env.sends
        /\ LET st == send_text(St0, s, t, 0)
           IN  /\ execQueue' = st.q
               /\ sendLog' = st.log
        /\ UNCHANGED <<hs, closing_, sockOpen, readOp, timerArmed, timerFired, closeOp,
                       inflight, sessions_, rooms_, worker,
                       wire, hooks, joined, bcastCount, lastBcast>>
        /\ UNCHANGED <<env, lpVars, brVars, extVars, dispVars>>

\* Session::close called by the application
HandlerClose ==
    \E s \in Sessions :
        /\ InHandler(s)
        /\ ~closing_[s]
        /\ SessionClose(s)
        /\ \E reason \in env.closeReasons :
               idleHist' = [idleHist EXCEPT ![s].closeCode = <<reason>>]
        /\ UNCHANGED <<hs, sockOpen, readOp, timerFired, inflight,
                       sessions_, rooms_, execQueue, worker,
                       sendLog, wire, hooks, joined, bcastCount, lastBcast,
                       bcastLog, disp, writeErr, errors_total>>
        /\ UNCHANGED <<env, lpVars, brVars, extVars>>

(***************************************************************************)
(* Broadcasts (any thread; the whole call runs under sessionsMutex_)       *)
(***************************************************************************)
\* Server::broadcast_room_text
BroadcastRoomText ==
    \E r \in Rooms, t \in Texts :
        /\ bcastCount < env.bcasts
        /\ LET S1 == cleanup_sessions_locked(sessions_)
               R1 == cleanup_rooms_locked(rooms_)
               vec == IF r \in DOMAIN R1 THEN R1[r] ELSE <<>>
               st == BroadcastLoop(vec, 1, t, bcastCount + 1, St0)
           IN  /\ sessions_' = S1
               /\ rooms_' = R1
               /\ execQueue' = st.q
               /\ sendLog' = st.log
               /\ lastBcast' = [kind |-> "room", room |-> r, text |-> t,
                                calls |-> st.calls,
                                live |-> {s \in Sessions : /\ r \in joined[s]
                                                           /\ hooks[s].close = 0
                                                           /\ Alive(s)},
                                members |-> {s \in Sessions : r \in joined[s]},
                                elsewhere |-> {s \in Sessions : /\ joined[s] # {}
                                                                /\ r \notin joined[s]
                                                                /\ Alive(s)}]
        /\ bcastCount' = bcastCount + 1
        /\ bcastLog' = [bcastLog EXCEPT ![r] = Append(@, t)]
        /\ UNCHANGED <<hs, closing_, sockOpen, readOp, timerArmed, timerFired, closeOp,
                       inflight, worker, wire, hooks, joined, disp, idleHist, writeErr,
                       errors_total>>
        /\ UNCHANGED <<env, lpVars, brVars, extVars>>

\* Server::broadcast_text
BroadcastText ==
    \E t \in Texts :
        /\ bcastCount < env.bcasts
        /\ LET S1 == cleanup_sessions_locked(sessions_)
               st == BroadcastLoop(S1, 1, t, bcastCount + 1, St0)
           IN  /\ sessions_' = S1
               /\ execQueue' = st.q
               /\ sendLog' = st.log
               /\ lastBcast' = [kind |-> "global", room |-> "", text |-> t,
                                calls |-> st.calls,
                                live |-> {s \in Sessions : /\ hs[s] = "open"
                                                           /\ hooks[s].close = 0
                                                           /\ Alive(s)},
                                members |-> {s \in Sessions : hs[s] = "open"},
                                elsewhere |-> {}]
        /\ bcastCount' = bcastCount + 1
        /\ UNCHANGED <<hs, closing_, sockOpen, readOp, timerArmed, timerFired, closeOp,
                       inflight, rooms_, worker, wire, hooks, joined>>
        /\ UNCHANGED <<env, lpVars, brVars, extVars, dispVars>>

(***************************************************************************)
(* Idle timer and close                                                    *)
(***************************************************************************)
\* The armed wait expires: its handler is queued with a success code.  A later
\* cancel() no longer reaches it.
TimerFire ==
    \E s \in Sessions :
        /\ timerArmed[s]
        /\ timerFired[s] < MaxTimerFired
        /\ timerArmed' = [timerArmed EXCEPT ![s] = FALSE]
        /\ timerFired' = [timerFired EXCEPT ![s] = @ + 1]
        /\ idleHist' = [idleHist EXCEPT ![s].unreadAtExpiry = ~idleHist[s].readSinceArm]
        /\ UNCHANGED <<hs, closing_, sockOpen, readOp, closeOp, inflight,
                       sessions_, rooms_, execQueue, worker,
                       sendLog, wire, hooks, joined, bcastCount, lastBcast,
                       bcastLog, disp, writeErr, errors_total>>
        /\ UNCHANGED <<env, lpVars, brVars, extVars>>

\* Session::on_idle_timeout with no error: close(normal)
OnIdleTimeout ==
    \E s \in Sessions :
        /\ timerFired[s] > 0
        /\ IoThreadFree
        /\ timerFired' = [timerFired EXCEPT ![s] = @ - 1]
        /\ SessionClose(s)
        /\ idleHist' = [idleHist EXCEPT
                           ![s].unreadAtExpiry = FALSE,
                           ![s].closeCode = IF closing_[s] THEN @ ELSE <<"normal">>]
        /\ UNCHANGED <<hs, sockOpen, readOp, inflight,
                       sessions_, rooms_, execQueue, worker,
                       sendLog, wire, hooks, joined, bcastCount, lastBcast,
                       bcastLog, disp, writeErr, errors_total>>
        /\ UNCHANGED <<env, lpVars, brVars, extVars>>

\* The completion handler of async_close (Session::close's lambda)
OnCloseComplete ==
    \E s \in Sessions :
        /\ closeOp[s]
        /\ IoThreadFree
        /\ closeOp' = [closeOp EXCEPT ![s] = FALSE]
        /\ sockOpen' = [sockOpen EXCEPT ![s] = FALSE]
        /\ HandleClose(s)
        /\ UNCHANGED <<hs, closing_, readOp, timerArmed, timerFired, inflight,
                       execQueue, worker, sendLog, wire, bcastCount, lastBcast>>
        /\ UNCHANGED <<env, lpVars, brVars, extVars, dispVars>>

(***************************************************************************)
(* Writes: executor tasks posted by send_text                              *)
(***************************************************************************)
\* A pool thread takes the oldest queued task and starts running its lambda.
WorkerTake ==
    \E w \in Workers :
        /\ w <= env.workers
        /\ worker[w] = <<>>
        /\ execQueue # <<>>
        /\ worker' = [worker EXCEPT ![w] = <<Head(execQueue)>>]
        /\ execQueue' = Tail(execQueue)
        /\ UNCHANGED <<hs, closing_, sockOpen, readOp, timerArmed, timerFired, closeOp,
                       inflight, sessions_, rooms_,
                       sendLog, wire, hooks, joined, bcastCount, lastBcast>>
        /\ UNCHANGED <<env, lpVars, brVars, extVars, dispVars>>

\* Session::do_write_text, run by the pool thread
DoWriteText ==
    \E w \in Workers :
        /\ worker[w] # <<>>
        /\ LET task == worker[w][1]
               s == task.s
           IN  IF closing_[s] \/ ~sockOpen[s]
               THEN UNCHANGED <<inflight, wire>>
               ELSE /\ inflight' = [inflight EXCEPT ![s] = @ + 1]
                    /\ wire' = [wire EXCEPT ![s] = Append(@, task.n)]
        /\ worker' = [worker EXCEPT ![w] = <<>>]
        /\ UNCHANGED <<hs, closing_, sockOpen, readOp, timerArmed, timerFired, closeOp,
                       sessions_, rooms_, execQueue,
                       sendLog, hooks, joined, bcastCount, lastBcast>>
        /\ UNCHANGED <<env, lpVars, brVars, extVars, dispVars>>

\* Session::on_write_complete: logs (WARN on an error other than
\* operation_aborted, DEBUG on success) and returns
OnWriteComplete ==
    \E s \in Sessions, ec \in env.writeEcs :
        /\ inflight[s] > 0
        /\ IoThreadFree
        /\ inflight' = [inflight EXCEPT ![s] = @ - 1]
        /\ writeErr' = [writeErr EXCEPT ![s] = @ \/ ec = "error"]
        /\ UNCHANGED <<hs, closing_, sockOpen, readOp, timerArmed, timerFired, closeOp,
                       sessions_, rooms_, execQueue, worker,
                       sendLog, wire, hooks, joined, bcastCount, lastBcast>>
        /\ UNCHANGED <<bcastLog, disp, idleHist, errors_total>>
        /\ UNCHANGED <<env, lpVars, brVars, extVars>>

(***************************************************************************)
(* Long polling: LongPollingSession (LongPolling.hpp)                      *)
(***************************************************************************)
Min(a, b) == IF a < b THEN a ELSE b

\* LongPollingSession{sessionId}: lastSeen = now, empty buffer
NewLpSession(now) == [lastSeen |-> now, buffer |-> <<>>]

is_expired_ge(sess, ttl, now) == (now - sess.lastSeen) >= ttl

is_expired(sess, ttl, now) == (now - sess.lastSeen) > ttl

enqueue_drop_tail(sess, msg, maxBufferSize, now) ==
    LET pushed == Append(sess.buffer, msg)
    IN  [lastSeen |-> now,
         buffer |-> IF Len(pushed) > maxBufferSize
                    THEN SubSeq(pushed, 1, Len(pushed) - 1) ELSE pushed]

enqueue_zero_is_unlimited(sess, msg, maxBufferSize, now) ==
    LET pushed == Append(sess.buffer, msg)
    IN  [lastSeen |-> now,
         buffer |-> IF maxBufferSize > 0 /\ Len(pushed) > maxBufferSize
                    THEN Tail(pushed) ELSE pushed]

enqueue(sess, msg, maxBufferSize, now) ==
    LET pushed == Append(sess.buffer, msg)
    IN  [lastSeen |-> now,
         buffer |-> IF Len(pushed) > maxBufferSize THEN Tail(pushed) ELSE pushed]

drain_lifo(sess, maxCount, now) ==
    IF maxCount = 0 \/ sess.buffer = <<>>
    THEN [sess |-> sess, out |-> <<>>]
    ELSE LET len == Len(sess.buffer)
             n == Min(maxCount, len)
         IN  [sess |-> [lastSeen |-> now, buffer |-> SubSeq(sess.buffer, 1, len - n)],
              out |-> [i \in 1..n |-> sess.buffer[len + 1 - i]]]

\* the result: the session afterwards and the vector returned
drain(sess, maxCount, now) ==
    IF maxCount = 0 \/ sess.buffer = <<>>
    THEN [sess |-> sess, out |-> <<>>]
    ELSE LET n == Min(maxCount, Len(sess.buffer))
         IN  [sess |-> [lastSeen |-> now,
                        buffer |-> SubSeq(sess.buffer, n + 1, Len(sess.buffer))],
              out |-> SubSeq(sess.buffer, 1, n)]

(***************************************************************************)
(* Long polling: LongPollingManager (LongPolling.cpp), metrics attached    *)
(***************************************************************************)
LpExists(S, sid) == S[sid] # <<>>

\* the result: the session map and the metrics afterwards
get_or_create_unlocked(S, M, sid, now) ==
    IF LpExists(S, sid)
    THEN [S |-> S, M |-> M]
    ELSE [S |-> [S EXCEPT ![sid] = <<NewLpSession(now)>>],
          M |-> [M EXCEPT !.lp_sessions_total = @ + 1,
                          !.lp_sessions_active = @ + 1,
                          !.lp_messages_buffered = @ + 0]]

BufferedDelta_add_only(M, beforeSize, afterSize) ==
    IF afterSize > beforeSize
    THEN [M EXCEPT !.lp_messages_buffered = @ + (afterSize - beforeSize)]
    ELSE M

\* lp_messages_buffered moved by afterSize - beforeSize
BufferedDelta(M, beforeSize, afterSize) ==
    [M EXCEPT !.lp_messages_buffered = @ + (afterSize - beforeSize)]

push_to(S, M, sid, msg, maxBuf, now) ==
    LET gc == get_or_create_unlocked(S, M, sid, now)
        session == gc.S[sid][1]
        after == enqueue(session, msg, maxBuf, now)
        M1 == BufferedDelta(gc.M, Len(session.buffer), Len(after.buffer))
    IN  [S |-> [gc.S EXCEPT ![sid] = <<after>>],
         M |-> [M1 EXCEPT !.lp_messages_enqueued_total = @ + 1]]

poll_ignores_flag(S, M, sid, maxMessages, createIfMissing, now) ==
    LET M0 == [M EXCEPT !.lp_polls_total = @ + 1]
        gc == get_or_create_unlocked(S, M0, sid, now)
        session == gc.S[sid][1]
        d == drain(session, maxMessages, now)
        drained == Len(d.out)
        M1 == IF drained > 0
              THEN [gc.M EXCEPT !.lp_messages_drained_total = @ + drained]
              ELSE gc.M
    IN  [S |-> [gc.S EXCEPT ![sid] = <<d.sess>>],
         M |-> BufferedDelta(M1, Len(session.buffer), Len(d.sess.buffer)),
         out |-> d.out]

\* the result: the session map, the metrics and the vector returned
poll(S, M, sid, maxMessages, createIfMissing, now) ==
    LET M0 == [M EXCEPT !.lp_polls_total = @ + 1]
    IN  IF ~LpExists(S, sid)
        THEN IF ~createIfMissing
             THEN [S |-> S, M |-> M0, out |-> <<>>]
             ELSE LET gc == get_or_create_unlocked(S, M0, sid, now)
                      d == drain(gc.S[sid][1], maxMessages, now)
                      drained == Len(d.out)
                  IN  [S |-> [gc.S EXCEPT ![sid] = <<d.sess>>],
                       M |-> IF drained > 0
                             THEN [gc.M EXCEPT !.lp_messages_drained_total = @ + drained,
                                               !.lp_messages_buffered = @ - drained]
                             ELSE gc.M,
                       out |-> d.out]
        ELSE LET session == S[sid][1]
                 d == drain(session, maxMessages, now)
                 drained == Len(d.out)
                 M1 == IF drained > 0
                       THEN [M0 EXCEPT !.lp_messages_drained_total = @ + drained]
                       ELSE M0
             IN  [S |-> [S EXCEPT ![sid] = <<d.sess>>],
                  M |-> BufferedDelta(M1, Len(session.buffer), Len(d.sess.buffer)),
                  out |-> d.out]

\* the sessions the sweep of `now` erases
SweepVictims(S, ttl, now) ==
    {sid \in Sids : LpExists(S, sid) /\ is_expired(S[sid][1], ttl, now)}

RECURSIVE SumBuffers(_, _)
SumBuffers(S, sids) ==
    IF sids = {} THEN 0
    ELSE LET sid == CHOOSE x \in sids : TRUE
         IN  Len(S[sid][1].buffer) + SumBuffers(S, sids \ {sid})

sweep_expired(S, M, ttl, now) ==
    LET victims == SweepVictims(S, ttl, now)
    IN  [S |-> [sid \in Sids |-> IF sid \in victims THEN <<>> ELSE S[sid]],
         M |-> [M EXCEPT !.lp_messages_buffered = @ - SumBuffers(S, victims),
                         !.lp_sessions_active = @ - Cardinality(victims)]]

LpConstructed(B) ==
    /\ lpSessions = [sid \in Sids |-> <<>>]
    /\ lpB = B
    /\ lpMetrics = [lp_sessions_total |-> 0, lp_sessions_active |-> 0,
                    lp_polls_total |-> 0, lp_messages_buffered |-> 0,
                    lp_messages_enqueued_total |-> 0, lp_messages_drained_total |-> 0]
    /\ lpNow = 0
    /\ lpSweep = <<>>
    /\ lpHist = [pushed |-> [sid \in Sids |-> <<>>],
                 polled |-> [sid \in Sids |-> <<>>],
                 run |-> [sid \in Sids |-> <<>>],
                 nextId |-> 1,
                 polls |-> 0,
                 last |-> [op |-> "none", sid |-> "", max |-> 0, create |-> FALSE,
                           out |-> <<>>, run |-> <<>>, S0 |-> <<>>, M0 |-> <<>>,
                           now |-> 0]]

\* LongPollingManager(ttl, maxBufferPerSession, &metrics)
InitLP == \E B \in 0..MaxB : LpConstructed(B)

\* LongPollingManager::push_to(sid, message); the message carries its push number
LpPushTo ==
    \E sid \in Sids :
        /\ lpHist.nextId <= MaxPushes
        /\ LET msg == lpHist.nextId
               r == push_to(lpSessions, lpMetrics, sid, msg, lpB, lpNow)
           IN  /\ lpSessions' = r.S
               /\ lpMetrics' = r.M
               /\ lpHist' = [lpHist EXCEPT
                                !.pushed[sid] = Append(@, msg),
                                !.run[sid] = Append(@, msg),
                                !.nextId = @ + 1,
                                !.last = [op |-> "push", sid |-> sid, max |-> 0,
                                          create |-> TRUE, out |-> <<>>, run |-> lpHist.run[sid],
                                          S0 |-> lpSessions, M0 |-> lpMetrics,
                                          now |-> lpNow]]
        /\ UNCHANGED <<lpB, lpNow, lpSweep>>
        /\ UNCHANGED <<wsVars, brVars, extVars>>

\* LongPollingManager::poll(sid, maxMessages, createIfMissing)
LpPoll ==
    \E sid \in Sids, n \in 0..MaxB, create \in BOOLEAN :
        /\ lpHist.polls < MaxPolls
        /\ LET r == poll(lpSessions, lpMetrics, sid, n, create, lpNow)
           IN  /\ lpSessions' = r.S
               /\ lpMetrics' = r.M
               /\ lpHist' = [lpHist EXCEPT
                                !.polled[sid] = @ \o r.out,
                                !.run[sid] = <<>>,
                                !.polls = @ + 1,
                                !.last = [op |-> "poll", sid |-> sid, max |-> n,
                                          create |-> create, out |-> r.out, run |-> lpHist.run[sid],
                                          S0 |-> lpSessions, M0 |-> lpMetrics,
                                          now |-> lpNow]]
        /\ UNCHANGED <<lpB, lpNow, lpSweep>>
        /\ UNCHANGED <<wsVars, brVars, extVars>>

\* LongPollingManager::sweep_expired, line 158: now is sampled before the lock
LpSweepBegin ==
    /\ lpSweep = <<>>
    /\ lpSweep' = <<lpNow>>
    /\ UNCHANGED <<lpSessions, lpB, lpMetrics, lpNow, lpHist>>
    /\ UNCHANGED <<wsVars, brVars, extVars>>

\* LongPollingManager::sweep_expired, lines 160-183: the pass under the lock
LpSweepRun ==
    /\ lpSweep # <<>>
    /\ LET now == lpSweep[1]
           r == sweep_expired(lpSessions, lpMetrics, sessionTtl, now)
       IN  /\ lpSessions' = r.S
           /\ lpMetrics' = r.M
           /\ lpHist' = [lpHist EXCEPT
                            !.run = [sid \in Sids |->
                                        IF LpExists(r.S, sid) THEN lpHist.run[sid] ELSE <<>>],
                            !.last = [op |-> "sweep", sid |-> "", max |-> 0,
                                      create |-> FALSE, out |-> <<>>, run |-> <<>>,
                                      S0 |-> lpSessions, M0 |-> lpMetrics,
                                      now |-> now]]
    /\ lpSweep' = <<>>
    /\ UNCHANGED <<lpB, lpNow>>
    /\ UNCHANGED <<wsVars, brVars, extVars>>

\* steady_clock advances
LpTick ==
    /\ lpNow < MaxTime
    /\ lpNow' = lpNow + 1
    /\ UNCHANGED <<lpSessions, lpB, lpMetrics, lpSweep, lpHist>>
    /\ UNCHANGED <<wsVars, brVars, extVars>>

(***************************************************************************)
(* LongPollingBridge (LongPollingBridge.hpp)                               *)
(***************************************************************************)
\* LongPollingBridge(manager, resolver, httpToWs)
BridgeConstructed(httpToWs) ==
    bridge = [httpToWs |-> httpToWs, call |-> <<>>, last |-> <<>>]

send_from_http_hook_first(httpToWs) ==
    IF httpToWs THEN <<"httpToWs", "push_to">> ELSE <<"push_to">>

\* send_from_http: the calls it makes, in order
send_from_http(httpToWs) ==
    IF httpToWs THEN <<"push_to", "httpToWs">> ELSE <<"push_to">>

\* an HTTP thread enters send_from_http(sid, msg); the message carries its push number
SendFromHttpBegin ==
    \E sid \in Sids :
        /\ bridge.call = <<>>
        /\ lpHist.nextId <= MaxPushes
        /\ bridge' = [bridge EXCEPT
                         !.call = <<[sid |-> sid, msg |-> lpHist.nextId,
                                     todo |-> send_from_http(bridge.httpToWs),
                                     enq |-> 0, fwd |-> <<>>, sessAfter |-> <<>>]>>]
        /\ lpHist' = [lpHist EXCEPT !.nextId = @ + 1]
        /\ UNCHANGED <<lpSessions, lpB, lpMetrics, lpNow, lpSweep>>
        /\ UNCHANGED <<wsVars, extVars>>

\* the next call of send_from_http: manager_.push_to(sessionId, msg) under the
\* manager's lock, or httpToWs_(msg); after the last one the function returns
SendFromHttpStep ==
    /\ bridge.call # <<>>
    /\ LET c == bridge.call[1]
           c1 == [c EXCEPT !.todo = Tail(@)]
           Return(cc) == IF cc.todo = <<>>
                         THEN [bridge EXCEPT !.call = <<>>, !.last = <<cc>>]
                         ELSE [bridge EXCEPT !.call = <<cc>>]
       IN  IF Head(c.todo) = "push_to"
           THEN LET r == push_to(lpSessions, lpMetrics, c.sid, c.msg, lpB, lpNow)
                IN  /\ lpSessions' = r.S
                    /\ lpMetrics' = r.M
                    /\ lpHist' = [lpHist EXCEPT
                                     !.pushed[c.sid] = Append(@, c.msg),
                                     !.run[c.sid] = Append(@, c.msg),
                                     !.last = [op |-> "push", sid |-> c.sid, max |-> 0,
                                               create |-> TRUE, out |-> <<>>,
                                               run |-> lpHist.run[c.sid],
                                               S0 |-> lpSessions, M0 |-> lpMetrics,
                                               now |-> lpNow]]
                    /\ bridge' = Return([c1 EXCEPT !.enq = @ + 1,
                                                   !.sessAfter = r.S[c.sid]])
           ELSE /\ bridge' = Return([c1 EXCEPT
                                        !.fwd = Append(@, [msg |-> c.msg,
                                                           enqueued |-> c.enq > 0])])
                /\ UNCHANGED <<lpSessions, lpMetrics, lpHist>>
    /\ UNCHANGED <<lpB, lpNow, lpSweep>>
    /\ UNCHANGED <<wsVars, extVars>>

(***************************************************************************)
(* SqliteMessageStore (SqliteMessageStore.cpp)                             *)
(***************************************************************************)
\* An id is the sequence of its characters; the decimal digit d is the number
\* d and any other character a number above 9, so that the order of the
\* numbers is the order of the bytes.  <<>> is the empty id.
RECURSIVE Pow10(_)
Pow10(k) == IF k = 0 THEN 1 ELSE 10 * Pow10(k - 1)

\* the decimal digit of n with weight 10^k (n < 2^31 has none above 10^9)
Digit(n, k) == IF k > 9 THEN 0 ELSE (n \div Pow10(k)) % 10

\* std::setw(20) << std::setfill('0') << micros
generate_id(micros) == [i \in 1..idWidth |-> Digit(micros, idWidth - i)]

\* the BINARY collation of SQLite on TEXT (memcmp, then the shorter first),
\* which is std::string's operator<
LexLess(a, b) ==
    \E k \in 1..(Min(Len(a), Len(b)) + 1) :
        /\ \A j \in 1..(k - 1) : a[j] = b[j]
        /\ IF k > Len(a) THEN k <= Len(b)
           ELSE k <= Len(b) /\ a[k] < b[k]

\* the ISO-8601 text of the wall clock has the resolution of one second
FormatTs(micros) == <<micros \div 1000000>>

\* the row that append binds for msg at wall-clock time micros
AppendRow(msg, micros) ==
    [id |-> IF msg.id = <<>> THEN generate_id(micros) ELSE msg.id,
     kind |-> IF msg.kind = "" THEN "event" ELSE msg.kind,
     room |-> IF msg.room = "" THEN <<>> ELSE <<msg.room>>,
     type |-> msg.type,
     ts |-> IF msg.ts = <<>> THEN FormatTs(micros) ELSE msg.ts,
     payload_json |-> ws_kvs_to_nlohmann(msg.payload)]

\* INSERT OR REPLACE INTO messages: id is the primary key
append(rows, msg, micros) ==
    LET row == AppendRow(msg, micros)
    IN  {r \in rows : r.id # row.id} \cup {row}

\* the JsonMessage the result loop builds from one row
RowToMessage(r) ==
    [id |-> r.id,
     kind |-> r.kind,
     room |-> IF r.room = <<>> THEN "" ELSE r.room[1],
     type |-> r.type,
     ts |-> r.ts,
     payload |-> nlohmann_payload_to_kvs(r.payload_json)]

\* ORDER BY id ASC LIMIT limit
RECURSIVE OrderByIdAsc(_, _)
OrderByIdAsc(rows, limit) ==
    IF rows = {} \/ limit = 0 THEN <<>>
    ELSE LET first == CHOOSE r \in rows : \A q \in rows \ {r} : LexLess(r.id, q.id)
         IN  <<RowToMessage(first)>> \o OrderByIdAsc(rows \ {first}, limit - 1)

\* ORDER BY id DESC LIMIT limit
RECURSIVE OrderByIdDesc(_, _)
OrderByIdDesc(rows, limit) ==
    IF rows = {} \/ limit = 0 THEN <<>>
    ELSE LET first == CHOOSE r \in rows : \A q \in rows \ {r} : LexLess(q.id, r.id)
         IN  <<RowToMessage(first)>> \o OrderByIdDesc(rows \ {first}, limit - 1)

list_by_room_no_before(rows, room, limit, before_id) ==
    IF limit = 0 THEN <<>>
    ELSE OrderByIdDesc({r \in rows : r.room = <<room>>}, limit)

list_by_room_before_inclusive(rows, room, limit, before_id) ==
    IF limit = 0 THEN <<>>
    ELSE OrderByIdDesc({r \in rows : /\ r.room = <<room>>
                                     /\ before_id # <<>> => ~LexLess(before_id[1], r.id)},
                       limit)

\* list_by_room: before_id is <<>> (std::nullopt) or <<id>>
list_by_room(rows, room, limit, before_id) ==
    IF limit = 0 THEN <<>>
    ELSE OrderByIdDesc({r \in rows : /\ r.room = <<room>>
                                     /\ before_id # <<>> => LexLess(r.id, before_id[1])},
                       limit)

replay_from_inclusive(rows, start_id, limit) ==
    IF limit = 0 THEN <<>>
    ELSE OrderByIdAsc({r \in rows : ~LexLess(r.id, start_id)}, limit)

\* replay_from: WHERE id > ?1 ORDER BY id ASC LIMIT ?2
replay_from(rows, start_id, limit) ==
    IF limit = 0 THEN <<>>
    ELSE OrderByIdAsc({r \in rows : LexLess(start_id, r.id)}, limit)

\* SqliteMessageStore::SqliteMessageStore on a new database file
StoreConstructed ==
    /\ store = {}
    /\ clock = 0
    /\ stHist = [assigned |-> <<>>, appends |-> 0, last |-> [op |-> "none"]]

\* the envelopes the callers append: with or without an id, in a room or not
StoreMsg(id, room) ==
    [id |-> id, kind |-> "", ts |-> <<>>, room |-> room, type |-> "chat.message",
     payload |-> <<JStr("text"), JStr("hi")>>]

CallerIds == {<<5>>}
StoreRooms == {"", "a", "b"}

\* system_clock is not steady: it moves forward, stands still between two
\* calls, or is set back
ClockStep ==
    /\ \E t \in 0..MaxClock : t # clock /\ clock' = t
    /\ UNCHANGED <<store, stHist>>
    /\ UNCHANGED <<wsVars, lpVars, brVars, chVars, restVars>>

\* SqliteMessageStore::append; rc is the result of the sqlite3 calls, and
\* sqlite_check throws on an error
StoreAppend ==
    \E id \in CallerIds \cup {<<>>}, room \in StoreRooms, rc \in {"ok", "error"} :
        /\ stHist.appends < MaxAppends
        /\ LET msg == StoreMsg(id, room)
           IN  IF rc = "ok"
               THEN /\ store' = append(store, msg, clock)
                    /\ stHist' = [assigned |-> IF id = <<>>
                                               THEN Append(stHist.assigned, generate_id(clock))
                                               ELSE stHist.assigned,
                                  appends |-> stHist.appends + 1,
                                  last |-> [op |-> "append", threw |-> FALSE]]
               ELSE /\ store' = store
                    /\ stHist' = [stHist EXCEPT !.appends = @ + 1,
                                                !.last = [op |-> "append", threw |-> TRUE]]
        /\ UNCHANGED clock
        /\ UNCHANGED <<wsVars, lpVars, brVars, chVars, restVars>>

StoreListByRoom ==
    \E room \in StoreRooms, limit \in 0..MaxLimit,
       before_id \in {<<>>} \cup {<<i>> : i \in CallerIds \cup {generate_id(1)}} :
        /\ stHist' = [stHist EXCEPT !.last =
                         [op |-> "list_by_room", room |-> room, limit |-> limit,
                          before_id |-> before_id,
                          out |-> list_by_room(store, room, limit, before_id)]]
        /\ UNCHANGED <<store, clock>>
        /\ UNCHANGED <<wsVars, lpVars, brVars, chVars, restVars>>

StoreReplayFrom ==
    \E start_id \in CallerIds \cup {<<>>, generate_id(0)}, limit \in 0..MaxLimit :
        /\ stHist' = [stHist EXCEPT !.last =
                         [op |-> "replay_from", start_id |-> start_id, limit |-> limit,
                          out |-> replay_from(store, start_id, limit)]]
        /\ UNCHANGED <<store, clock>>
        /\ UNCHANGED <<wsVars, lpVars, brVars, chVars, restVars>>

\* a page is never empty before the last one, so a room of k rows takes at
\* most k + 1 calls
MaxPages == MaxAppends + 2

\* the pages a reader gets who calls list_by_room(room, limit, before_id) and
\* then again with before_id = the id of the last row received, until a page
\* comes back empty (or MaxPages calls were made)
RECURSIVE Pages(_, _, _, _, _)
Pages(rows, room, limit, before_id, calls) ==
    LET page == list_by_room(rows, room, limit, before_id)
    IN  IF page = <<>> \/ calls = 1 THEN <<page>>
        ELSE <<page>> \o Pages(rows, room, limit, <<page[Len(page)].id>>, calls - 1)

\* the reader pages through a room while nothing is appended
StorePageThrough ==
    \E room \in StoreRooms, limit \in 1..MaxLimit :
        /\ stHist' = [stHist EXCEPT !.last =
                         [op |-> "paging", room |-> room, limit |-> limit,
                          pages |-> Pages(store, room, limit, <<>>, MaxPages)]]
        /\ UNCHANGED <<store, clock>>
        /\ UNCHANGED <<wsVars, lpVars, brVars, chVars, restVars>>

(***************************************************************************)
(* The chat application: the typed handler registered with App::ws         *)
(* (examples/advanced/src/server.cpp)                                      *)
(***************************************************************************)
\* j.value(key, default) on the object built from the payload
ObjValue(j, key, default) ==
    LET at == {i \in 1..Len(j.items) : j.items[i].k = key}
    IN  IF at = {} THEN default ELSE j.items[CHOOSE i \in at : TRUE].v.s

\* payload.value(key, default) of the handler's nlohmann object
PayloadValue(payload, key, default) == ObjValue(ws_kvs_to_nlohmann(payload), key, default)

\* the text frame a chat client sends: {"type": type, "payload": {...}}
ChatFrame(type, members) ==
    [json |-> "object", fields |-> [type |-> type, payload |-> JObj(members)]]

ChatFrames ==
    {ChatFrame("chat.join", <<[k |-> "room", v |-> JStr("a")]>>),
     ChatFrame("chat.join", <<>>),
     ChatFrame("chat.leave", <<[k |-> "room", v |-> JStr("a")]>>),
     ChatFrame("chat.message", <<[k |-> "room", v |-> JStr("a")],
                                 [k |-> "text", v |-> JStr("hi")]>>),
     ChatFrame("chat.message", <<[k |-> "text", v |-> JStr("hi")]>>),
     ChatFrame("chat.message", <<[k |-> "room", v |-> JStr("a")]>>)}

\* the envelopes the handler builds
ChatEnvelope(kind, type, room, payload) ==
    [id |-> <<>>, kind |-> kind, ts |-> <<>>, room |-> room, type |-> type,
     payload |-> payload]

\* JsonMessage::serialize of a row read back from the store
SerializeStored(m) ==
    [json |-> "object",
     fields |-> [k \in {"id", "kind", "ts", "type", "payload"}
                        \cup (IF m.room = "" THEN {} ELSE {"room"}) |->
                    IF k = "payload" THEN ws_kvs_to_nlohmann(m.payload) ELSE m[k]]]

\* for (auto msg : history) { if (msg.kind.empty()) msg.kind = "history";
\*                            session.send_text(JsonMessage::serialize(msg)); }
HistoryFrames(history) ==
    [i \in 1..Len(history) |->
        SerializeStored([history[i] EXCEPT !.kind = IF @ = "" THEN "history" ELSE @])]

RECURSIVE SendAll(_, _, _, _)
SendAll(st, s, frames, i) ==
    IF i > Len(frames) THEN st
    ELSE SendAll(send_text(st, s, frames[i], 0), s, frames, i + 1)

\* what one run of the typed handler does for (type, payload) when the sqlite3
\* calls of store.append return rc: the room joined or left, the history
\* frames sent to the session, the envelope appended, and the broadcast made.
\* An append that fails throws, and the rest of the handler is not run.
ChatPlanFor(type, payload, rc, room, user, text) ==
    LET none == [join |-> "", leave |-> "", history |-> FALSE, append |-> <<>>,
                 bcast |-> <<>>, threw |-> FALSE]
        done(plan, env_, kind_, room_) ==
            IF rc = "ok"
            THEN [plan EXCEPT !.append = <<env_>>,
                              !.bcast = <<[kind |-> kind_, room |-> room_,
                                           frame |-> serialize_type(env_.type,
                                                                    env_.payload)]>>]
            ELSE [plan EXCEPT !.threw = TRUE]
    IN  CASE type = "chat.join" ->
                 IF room = "" THEN none
                 ELSE done([none EXCEPT !.join = room, !.history = TRUE],
                           ChatEnvelope("system", "chat.system", room,
                                        <<JStr("room"), JStr(room), JStr("text"),
                                          JStr(user \o " joined the room")>>),
                           "room", room)
          [] type = "chat.leave" ->
                 IF room = "" THEN none
                 ELSE done([none EXCEPT !.leave = room],
                           ChatEnvelope("system", "chat.system", room,
                                        <<JStr("room"), JStr(room), JStr("text"),
                                          JStr(user \o " left the room")>>),
                           "room", room)
          [] type = "chat.message" /\ room # "" /\ text # "" ->
                 done(none,
                      ChatEnvelope("event", "chat.message", room,
                                   <<JStr("room"), JStr(room), JStr("user"), JStr(user),
                                     JStr("text"), JStr(text)>>),
                      "room", room)
          [] OTHER ->
                 done(none, ChatEnvelope("event", type, "", payload), "global", "")

\* the plan for the room, user and text read from the payload
ChatPlan(type, payload, rc) ==
    ChatPlanFor(type, payload, rc,
                PayloadValue(payload, "room", ""),
                PayloadValue(payload, "user", "anonymous"),
                PayloadValue(payload, "text", ""))

\* the handler's effects once its plan is known: the room change, the history
\* sent, the append, the broadcast, and the exception's way out
ChatRun(s, type, payload, plan, history, S2, R2, st2) ==
    /\ rooms_' = R2
    /\ sessions_' = IF plan.join # "" \/ plan.bcast # <<>> THEN S2 ELSE sessions_
    /\ joined' = [joined EXCEPT ![s] =
                      (@ \cup (IF plan.join # "" THEN {plan.join} ELSE {}))
                          \ (IF plan.leave # "" THEN {plan.leave} ELSE {})]
    /\ execQueue' = st2.q
    /\ sendLog' = st2.log
    /\ store' = IF plan.append # <<>>
                THEN append(store, plan.append[1], clock) ELSE store
    /\ bcastCount' = IF plan.bcast # <<>> THEN bcastCount + 1 ELSE bcastCount
    /\ bcastLog' = IF plan.bcast # <<>> /\ plan.bcast[1].kind = "room"
                   THEN [bcastLog EXCEPT ![plan.bcast[1].room] =
                             Append(@, plan.bcast[1].frame)]
                   ELSE bcastLog
    /\ chat' = [chat EXCEPT ![s] =
                  <<[type |-> type,
                     room |-> PayloadValue(payload, "room", ""),
                     text |-> PayloadValue(payload, "text", ""),
                     threw |-> plan.threw,
                     history |-> history,
                     sent |-> SubSeq(st2.log[s], Len(sendLog[s]) + 1,
                                     Len(st2.log[s])),
                     appended |-> plan.append,
                     bcast |-> plan.bcast,
                     errors0 |-> errors_total]>>]
    /\ IF plan.threw
       THEN /\ readOp' = [readOp EXCEPT ![s] = "none"]
            /\ ioExited' = ioExited + 1
       ELSE UNCHANGED <<readOp, ioExited>>

\* the history read for a join, and the sends of the handler in their order:
\* the history frames, then the broadcast over the sessions or the room
ChatHistory(plan) ==
    IF plan.history THEN list_by_room(store, plan.join, HISTORY_LIMIT, <<>>) ELSE <<>>

ChatSends(plan, st1, vec) ==
    IF plan.bcast = <<>> THEN st1
    ELSE BroadcastLoop(vec, 1, plan.bcast[1].frame, bcastCount + 1,
                       [st1 EXCEPT !.calls = <<>>])

\* the sessions a broadcast walks: all of them, or the room's
ChatVec(plan, S2, R2) ==
    IF plan.bcast = <<>> THEN <<>>
    ELSE IF plan.bcast[1].kind = "global" THEN S2
    ELSE IF plan.bcast[1].room \in DOMAIN R2 THEN R2[plan.bcast[1].room]
    ELSE <<>>

\* broadcast_room_text cleans the rooms up before it looks the room up
ChatRooms(plan, R1) ==
    IF plan.bcast # <<>> /\ plan.bcast[1].kind = "room"
    THEN cleanup_rooms_locked(R1) ELSE R1

\* the handler from the history on
ChatStep(s, type, payload, plan, history, S2, R2) ==
    ChatRun(s, type, payload, plan, history, S2, R2,
            ChatSends(plan, SendAll(St0, s, HistoryFrames(history), 1),
                      ChatVec(plan, S2, R2)))

\* the handler from the join or leave on
ChatApply(s, type, payload, plan) ==
    ChatStep(s, type, payload, plan, ChatHistory(plan),
             cleanup_sessions_locked(sessions_),
             ChatRooms(plan,
                       IF plan.join # "" THEN join_room(rooms_, s, plan.join)
                       ELSE IF plan.leave # "" THEN leave_room(rooms_, s, plan.leave)
                       ELSE rooms_))

\* App::ws: no typed handler has run yet
ChatInstalled ==
    /\ ioExited = 0
    /\ chat = [s \in Sessions |-> <<>>]

\* The typed handler of the chat application, run by on_read for the envelope
\* just dispatched.  When store.append throws, the exception leaves the
\* handler, on_read and ioContext_->run(): the I/O thread logs it and
\* finishes, and on_read never re-arms the timer or the read.
ChatHandler ==
    \E s \in Sessions, rc \in {"ok", "error"} :
        /\ readOp[s] = "handler"
        /\ disp[s] # <<>>
        /\ disp[s][1].typed # <<>>
        /\ chat[s] = <<>>
        /\ bcastCount < env.bcasts
        /\ ChatApply(s, disp[s][1].typed[1].type, disp[s][1].typed[1].payload,
                     ChatPlan(disp[s][1].typed[1].type, disp[s][1].typed[1].payload, rc))
        /\ UNCHANGED <<hs, closing_, sockOpen, timerArmed, timerFired, closeOp,
                       inflight, worker, wire, hooks, lastBcast>>
        /\ UNCHANGED <<disp, idleHist, writeErr, errors_total>>
        /\ UNCHANGED <<clock, stHist>>
        /\ UNCHANGED <<env, lpVars, brVars, restVars>>

(***************************************************************************)
(* Client (client.hpp)                                                     *)
(***************************************************************************)
Reconnects == 1..MaxReconnects

\* Client::create, enable_auto_reconnect(autoReconnect), enable_heartbeat
ClientCreated(autoReconnect, heartbeat) ==
    /\ client = [started |-> FALSE, connected |-> FALSE, closing |-> FALSE,
                 alive |-> TRUE, autoReconnect |-> autoReconnect,
                 reconnectScheduled |-> FALSE, heartbeatEnabled |-> heartbeat,
                 heartbeatStop |-> FALSE, hbThread |-> FALSE, ioRunning |-> FALSE,
                 ops |-> {}, posted |-> <<>>, writeQueue |-> <<>>,
                 writeInProgress |-> FALSE, writing |-> <<>>,
                 calls |-> <<>>, wrote |-> <<>>, pops |-> <<>>,
                 attempts |-> 0, lost |-> FALSE, closeCalled |-> FALSE,
                 openedAfterClose |-> FALSE]
    /\ reconn = [i \in Reconnects |-> "none"]
    /\ clEc = "none"

\* init_io after its joins returned, and the rest of connect(): a new
\* io_context, resolver and stream, the I/O thread, do_resolve posted
StartPipeline(c) ==
    [c EXCEPT !.connected = FALSE, !.closing = FALSE, !.heartbeatStop = FALSE,
              !.ioRunning = TRUE, !.ops = {"resolve"}, !.posted = <<>>, !.writing = <<>>,
              !.attempts = @ + 1, !.lost = FALSE]

\* maybe_schedule_reconnect(ec): does it start a reconnect thread
SchedulesReconnect(c, ec) ==
    /\ c.autoReconnect
    /\ ~c.closing
    /\ c.alive
    /\ ec \notin {"closed", "aborted"}
    /\ ~c.reconnectScheduled

\* the detached thread of maybe_schedule_reconnect starts sleeping
Spawn(rc) ==
    LET i == CHOOSE j \in Reconnects : rc[j] = "none" /\ \A k \in Reconnects :
                                                           rc[k] = "none" => j <= k
    IN  [rc EXCEPT ![i] = "sleep"]

\* ioc_->run() returns, and the I/O thread ends, when no operation is left
Settle(c) ==
    IF c.ops = {} /\ c.posted = <<>> /\ c.writing = <<>>
    THEN [c EXCEPT !.ioRunning = FALSE] ELSE c

\* do_write: nothing while closing; an empty queue clears writeInProgress_;
\* else async_write of the front text, which stays in the queue
do_write(c) ==
    IF c.closing THEN c
    ELSE IF c.writeQueue = <<>> THEN [c EXCEPT !.writeInProgress = FALSE]
    ELSE [c EXCEPT !.writing = Append(@, Head(c.writeQueue)),
                   !.wrote = Append(@, Head(c.writeQueue))]

\* the lambda send_text posted: it queues the text and starts do_write
\* unless a write is in progress
send_text_posted_always_writes(c, text) ==
    IF c.closing THEN c
    ELSE do_write([c EXCEPT !.writeQueue = Append(@, text), !.writeInProgress = TRUE])

send_text_posted(c, text) ==
    IF c.closing THEN c
    ELSE IF c.writeInProgress THEN [c EXCEPT !.writeQueue = Append(@, text)]
    ELSE do_write([c EXCEPT !.writeQueue = Append(@, text), !.writeInProgress = TRUE])

\* the handler of async_write before it looks at ec: the front text is popped
write_popped(c) ==
    [c EXCEPT !.writing = Tail(@),
              !.writeQueue = IF @ = <<>> THEN @ ELSE Tail(@),
              !.pops = IF c.writeQueue = <<>> THEN @
                       ELSE Append(@, <<Head(c.writeQueue), Head(c.writing)>>)]

\* a completion handler that got the error code ec runs
\* maybe_schedule_reconnect(ec) on the client c1 it leaves
AfterError(c1, ec) ==
    IF SchedulesReconnect(c1, ec)
    THEN /\ client' = Settle([c1 EXCEPT !.reconnectScheduled = TRUE])
         /\ reconn' = Spawn(reconn)
    ELSE /\ client' = Settle(c1)
         /\ UNCHANGED reconn

\* the errors the environment may raise: bounded by the attempts made, and a
\* thread slot is free for the reconnect the error may schedule
MayFail == client.attempts < MaxAttempts /\ \E i \in Reconnects : reconn[i] = "none"

Ecs(normal) == {"ok"} \cup (IF MayFail THEN {"error"} \cup normal ELSE {})

CompletionReady(op) == client.ioRunning /\ op \in client.ops

\* Client::connect called by the application
ClConnect ==
    /\ client.alive /\ ~client.closing
    /\ ~client.started
    /\ client.attempts = 0
    /\ client' = StartPipeline([client EXCEPT !.started = TRUE])
    /\ UNCHANGED reconn
    /\ clEc' = "none"
    /\ UNCHANGED <<wsVars, lpVars, brVars, stVars, chVars, prVars, rtVars>>

\* the handler of async_resolve
ClOnResolve ==
    \E ec \in Ecs({}) :
        /\ CompletionReady("resolve")
        /\ IF ec = "ok"
           THEN /\ client' = [client EXCEPT !.ops = (@ \ {"resolve"}) \cup {"connect"}]
                /\ UNCHANGED reconn
           ELSE AfterError([client EXCEPT !.ops = @ \ {"resolve"}], ec)
        /\ clEc' = ec
        /\ UNCHANGED <<wsVars, lpVars, brVars, stVars, chVars, prVars, rtVars>>

\* the handler of async_connect
ClOnConnect ==
    \E ec \in Ecs({}) :
        /\ CompletionReady("connect")
        /\ IF ec = "ok"
           THEN /\ client' = [client EXCEPT !.ops = (@ \ {"connect"}) \cup {"handshake"}]
                /\ UNCHANGED reconn
           ELSE AfterError([client EXCEPT !.ops = @ \ {"connect"}], ec)
        /\ clEc' = ec
        /\ UNCHANGED <<wsVars, lpVars, brVars, stVars, chVars, prVars, rtVars>>

\* the handler of async_handshake: connected_, onOpen_, start_heartbeat
\* (unless heartbeatThread_ is joinable), do_read
ClOnHandshake ==
    \E ec \in Ecs({}) :
        /\ CompletionReady("handshake")
        /\ IF ec = "ok"
           THEN /\ client' = [client EXCEPT
                                 !.ops = (@ \ {"handshake"}) \cup {"read"},
                                 !.connected = TRUE,
                                 !.openedAfterClose = @ \/ client.closeCalled,
                                 !.hbThread = @ \/ client.heartbeatEnabled]
                /\ UNCHANGED reconn
           ELSE AfterError([client EXCEPT !.ops = @ \ {"handshake"}], ec)
        /\ clEc' = ec
        /\ UNCHANGED <<wsVars, lpVars, brVars, stVars, chVars, prVars, rtVars>>

\* the handler of async_read: on an error connected_ = false, onClose_,
\* maybe_schedule_reconnect; else onMessage_ and the next do_read
ClOnRead ==
    \E ec \in Ecs({"closed"}) :
        /\ CompletionReady("read")
        /\ IF ec = "ok"
           THEN /\ client' = Settle([client EXCEPT
                                 !.ops = IF client.closing THEN @ \ {"read"} ELSE @])
                /\ UNCHANGED reconn
           ELSE AfterError([client EXCEPT !.ops = @ \ {"read"},
                                          !.connected = FALSE,
                                          !.lost = @ \/ (ec = "error" /\ client.autoReconnect
                                                         /\ ~client.closeCalled)],
                           ec)
        /\ clEc' = ec
        /\ UNCHANGED <<wsVars, lpVars, brVars, stVars, chVars, prVars, rtVars>>

\* send_text called by the application: the lambda is posted to the stream's
\* executor
ClSendText ==
    /\ client.connected /\ ~client.closing
    /\ Len(client.calls) < MaxClientSends
    /\ client' = [client EXCEPT !.posted = Append(@, Len(client.calls) + 1),
                                !.calls = Append(@, Len(client.calls) + 1)]
    /\ UNCHANGED reconn
    /\ clEc' = "none"
    /\ UNCHANGED <<wsVars, lpVars, brVars, stVars, chVars, prVars, rtVars>>

\* the I/O thread runs the lambda send_text posted
ClSendPosted ==
    /\ client.ioRunning
    /\ client.posted # <<>>
    /\ client' = Settle(send_text_posted([client EXCEPT !.posted = Tail(@)],
                                         Head(client.posted)))
    /\ UNCHANGED reconn
    /\ clEc' = "none"
    /\ UNCHANGED <<wsVars, lpVars, brVars, stVars, chVars, prVars, rtVars>>

\* the handler of async_write in do_write: the front text is popped; an
\* error is reported and ends the chain, with writeInProgress_ left as it is;
\* else do_write goes on with the next text
ClOnWrite ==
    \E ec \in Ecs({}) :
        /\ client.ioRunning
        /\ client.writing # <<>>
        /\ IF ec = "ok"
           THEN /\ client' = Settle(do_write(write_popped(client)))
                /\ UNCHANGED reconn
           ELSE AfterError([write_popped(client) EXCEPT
                               !.lost = @ \/ (client.autoReconnect
                                              /\ ~client.closeCalled)],
                           ec)
        /\ clEc' = ec
        /\ UNCHANGED <<wsVars, lpVars, brVars, stVars, chVars, prVars, rtVars>>

\* the heartbeat thread's loop body after its sleep: send_ping
ClHeartbeat ==
    /\ client.hbThread
    /\ ~client.heartbeatStop /\ client.alive
    /\ client.connected /\ ~client.closing
    /\ client.ioRunning
    /\ "ping" \notin client.ops
    /\ client' = [client EXCEPT !.ops = @ \cup {"ping"}]
    /\ UNCHANGED reconn
    /\ clEc' = "none"
    /\ UNCHANGED <<wsVars, lpVars, brVars, stVars, chVars, prVars, rtVars>>

\* the handler of async_ping
ClOnPing ==
    \E ec \in Ecs({}) :
        /\ CompletionReady("ping")
        /\ IF ec = "ok"
           THEN /\ client' = Settle([client EXCEPT !.ops = @ \ {"ping"}])
                /\ UNCHANGED reconn
           ELSE AfterError([client EXCEPT !.ops = @ \ {"ping"}], ec)
        /\ clEc' = ec
        /\ UNCHANGED <<wsVars, lpVars, brVars, stVars, chVars, prVars, rtVars>>

\* the heartbeat thread leaves its loop: heartbeatStop_ or !alive_
ClHeartbeatExit ==
    /\ client.hbThread
    /\ client.heartbeatStop \/ ~client.alive
    /\ client' = [client EXCEPT !.hbThread = FALSE]
    /\ UNCHANGED reconn
    /\ clEc' = "none"
    /\ UNCHANGED <<wsVars, lpVars, brVars, stVars, chVars, prVars, rtVars>>

\* Client::close up to its joins: the flags, async_close posted, ioc_->stop()
ClClose ==
    /\ ~client.closing
    /\ client.attempts > 0
    /\ client' = [client EXCEPT !.closing = TRUE, !.alive = FALSE,
                                !.heartbeatStop = TRUE, !.autoReconnect = FALSE,
                                !.reconnectScheduled = FALSE, !.ioRunning = FALSE,
                                !.ops = {}, !.posted = <<>>, !.writing = <<>>,
                                !.closeCalled = TRUE]
    /\ UNCHANGED reconn
    /\ clEc' = "none"
    /\ UNCHANGED <<wsVars, lpVars, brVars, stVars, chVars, prVars, rtVars>>

\* the reconnect thread after sleep_for(reconnectDelay_): it gives up when the
\* client is closing, else clears started_ and reconnectScheduled_
ClWake ==
    \E i \in Reconnects :
        /\ reconn[i] = "sleep"
        /\ IF ~client.alive \/ client.closing
           THEN /\ client' = [client EXCEPT !.reconnectScheduled = FALSE]
                /\ reconn' = [reconn EXCEPT ![i] = "none"]
           ELSE /\ client' = [client EXCEPT !.started = FALSE,
                                            !.reconnectScheduled = FALSE]
                /\ reconn' = [reconn EXCEPT ![i] = "woke"]
        /\ clEc' = "none"
        /\ UNCHANGED <<wsVars, lpVars, brVars, stVars, chVars, prVars, rtVars>>

\* the reconnect thread calls connect(): the guards on alive_, closing_ and
\* started_
ClReconnect ==
    \E i \in Reconnects :
        /\ reconn[i] = "woke"
        /\ IF ~client.alive \/ client.closing \/ client.started
           THEN /\ UNCHANGED client
                /\ reconn' = [reconn EXCEPT ![i] = "none"]
           ELSE /\ client' = [client EXCEPT !.started = TRUE]
                /\ reconn' = [reconn EXCEPT ![i] = "init_io"]
        /\ clEc' = "none"
        /\ UNCHANGED <<wsVars, lpVars, brVars, stVars, chVars, prVars, rtVars>>

\* init_io in the reconnect thread: it stops ioc_, joins ioThread_, and joins
\* heartbeatThread_ when it is joinable
ClInitIo ==
    \E i \in Reconnects :
        /\ reconn[i] = "init_io"
        /\ LET c1 == [client EXCEPT !.ioRunning = FALSE, !.ops = {},
                                    !.posted = <<>>, !.writing = <<>>]
           IN  IF client.hbThread
               THEN /\ client' = c1
                    /\ reconn' = [reconn EXCEPT ![i] = "join_hb"]
               ELSE /\ client' = StartPipeline(c1)
                    /\ reconn' = [reconn EXCEPT ![i] = "none"]
        /\ clEc' = "none"
        /\ UNCHANGED <<wsVars, lpVars, brVars, stVars, chVars, prVars, rtVars>>

\* heartbeatThread_.join() in init_io returns once the heartbeat thread has
\* left its loop; init_io and connect() then run to their end
ClJoinHeartbeat ==
    \E i \in Reconnects :
        /\ reconn[i] = "join_hb"
        /\ ~client.hbThread
        /\ client' = StartPipeline(client)
        /\ reconn' = [reconn EXCEPT ![i] = "none"]
        /\ clEc' = "none"
        /\ UNCHANGED <<wsVars, lpVars, brVars, stVars, chVars, prVars, rtVars>>

(***************************************************************************)
(* AttachedRuntime (AttachedRuntime.hpp) and the server's stop             *)
(* (server.hpp, websocket.cpp)                                             *)
(***************************************************************************)
WsThread == 0
StopCallers == 1..NumStopCallers
RtThreads == {WsThread} \cup StopCallers

\* AttachedRuntime(app, ws): wsThread_ is launched, the shutdown callback is
\* registered
RuntimeAttached ==
    /\ rt = [stopped |-> FALSE, stopRequested |-> FALSE, io |-> "none",
             joined |-> FALSE, stops |-> 0]
    /\ rtPc = [t \in RtThreads |-> IF t = WsThread THEN "start" ELSE "idle"]

\* the threads inside Server::stop: stop_async done, join_threads not ended
InStopSequence == {t \in RtThreads : rtPc[t] \in {"join_threads", "joining"}}

\* listen_blocking on wsThread_: start() runs the I/O threads; on a context
\* that was stopped already their run() returns at once
RtListenStart ==
    /\ rtPc[WsThread] = "start"
    /\ rt' = [rt EXCEPT !.io = IF rt.stopRequested THEN "finished" ELSE "running"]
    /\ rtPc' = [rtPc EXCEPT ![WsThread] = "loop"]
    /\ UNCHANGED <<wsVars, lpVars, brVars, stVars, chVars, prVars, clVars>>

\* listen_blocking: the loop ends when is_stop_requested(), then stop()
RtListenLoopExit ==
    /\ rtPc[WsThread] = "loop"
    /\ rt.stopRequested
    /\ rtPc' = [rtPc EXCEPT ![WsThread] = "stop_async"]
    /\ UNCHANGED rt
    /\ UNCHANGED <<wsVars, lpVars, brVars, stVars, chVars, prVars, clVars>>

\* AttachedRuntime::stop called by the shutdown callback, the destructor or
\* the application: only the first caller goes on to ws_.stop()
RtStop(t) ==
    IF rt.stopped
    THEN /\ rtPc' = [rtPc EXCEPT ![t] = "done"]
         /\ UNCHANGED rt
    ELSE /\ rt' = [rt EXCEPT !.stopped = TRUE]
         /\ rtPc' = [rtPc EXCEPT ![t] = "stop_async"]

RtCallStop ==
    \E t \in StopCallers :
        /\ rtPc[t] = "idle"
        /\ RtStop(t)
        /\ UNCHANGED <<wsVars, lpVars, brVars, stVars, chVars, prVars, clVars>>

\* Server::stop_async: stopRequested_, the acceptor closed, ioContext_->stop()
RtStopAsync ==
    \E t \in RtThreads :
        /\ rtPc[t] = "stop_async"
        /\ rt' = [rt EXCEPT !.stopRequested = TRUE, !.stops = @ + 1]
        /\ rtPc' = [rtPc EXCEPT ![t] = "join_threads"]
        /\ UNCHANGED <<wsVars, lpVars, brVars, stVars, chVars, prVars, clVars>>

\* an I/O thread leaves ioContext_->run() after the stop
RtIoFinish ==
    /\ rt.io = "running"
    /\ rt.stopRequested
    /\ rt' = [rt EXCEPT !.io = "finished"]
    /\ UNCHANGED rtPc
    /\ UNCHANGED <<wsVars, lpVars, brVars, stVars, chVars, prVars, clVars>>

\* Server::join_threads: t.join() on every joinable I/O thread
RtJoinBegin ==
    \E t \in RtThreads :
        /\ rtPc[t] = "join_threads"
        /\ rtPc' = [rtPc EXCEPT ![t] = "joining"]
        /\ UNCHANGED rt
        /\ UNCHANGED <<wsVars, lpVars, brVars, stVars, chVars, prVars, clVars>>

\* the joins return once the I/O threads have finished (or none was started);
\* Server::stop is over: listen_blocking returns, AttachedRuntime::stop goes
\* on to join wsThread_
RtJoinEnd ==
    \E t \in RtThreads :
        /\ rtPc[t] = "joining"
        /\ rt.io # "running"
        /\ rt' = [rt EXCEPT !.joined = @ \/ rt.io = "finished"]
        /\ rtPc' = [rtPc EXCEPT ![t] = IF t = WsThread THEN "done" ELSE "join_ws"]
        /\ UNCHANGED <<wsVars, lpVars, brVars, stVars, chVars, prVars, clVars>>

\* wsThread_.join() in AttachedRuntime::stop
RtJoinWs ==
    \E t \in StopCallers :
        /\ rtPc[t] = "join_ws"
        /\ rtPc[WsThread] = "done"
        /\ rtPc' = [rtPc EXCEPT ![t] = "done"]
        /\ UNCHANGED rt
        /\ UNCHANGED <<wsVars, lpVars, brVars, stVars, chVars, prVars, clVars>>

(***************************************************************************)
(* Specifications                                                          *)
(***************************************************************************)
\* main(): the server, and the components constructed next to it
InitProgram(e) ==
    InitWS(e) /\ StoreConstructed /\ ChatInstalled /\ proto = <<>> /\ ClientCreated(FALSE, FALSE)
    /\ RuntimeAttached

\* Spec: the server with NumSessions clients, rooms and broadcasts, on the
\* default configuration.  The pool runs one thread and the application sends
\* through broadcasts only.
EnvServer == [conns |-> NumSessions, idleTimeout |-> defaultIdleTimeout, workers |-> 1,
              sends |-> 0, bcasts |-> MaxBroadcasts,
              frames |-> {JsonTypedRoom}, rawHandler |-> FALSE, typedHandler |-> TRUE,
              closeReasons |-> {"normal"}, writeEcs |-> {"ok"}, chatApp |-> FALSE]

Init == InitProgram(EnvServer) /\ LpConstructed(defaultMaxBuffer) /\ BridgeConstructed(FALSE)

Next ==
    \/ Accept
    \/ OnAccept
    \/ OnReadBegin
    \/ OnReadEnd
    \/ HandlerJoinRoom
    \/ HandlerLeaveRoom
    \/ HandlerLeaveAllRooms
    \/ HandlerClose
    \/ BroadcastRoomText
    \/ BroadcastText
    \/ TimerFire
    \/ OnIdleTimeout
    \/ OnCloseComplete
    \/ WorkerTake
    \/ DoWriteText
    \/ OnWriteComplete

Spec == Init /\ [][Next]_vars

\* SpecSession: one client on the default configuration (idle timer on), the
\* pool with NumWorkers threads, handler replies and broadcasts.
EnvSession == [conns |-> 1, idleTimeout |-> defaultIdleTimeout, workers |-> NumWorkers,
               sends |-> SessSends, bcasts |-> SessBroadcasts,
               frames |-> {JsonTypedRoom}, rawHandler |-> FALSE, typedHandler |-> TRUE,
              closeReasons |-> {"none", "going_away"}, writeEcs |-> {"ok"}, chatApp |-> FALSE]

InitSession ==
    InitProgram(EnvSession) /\ LpConstructed(defaultMaxBuffer) /\ BridgeConstructed(FALSE)

NextSession ==
    \/ Accept
    \/ OnAccept
    \/ OnReadBegin
    \/ OnReadEnd
    \/ HandlerJoinRoom
    \/ HandlerLeaveRoom
    \/ HandlerLeaveAllRooms
    \/ HandlerSendText
    \/ HandlerClose
    \/ BroadcastRoomText
    \/ BroadcastText
    \/ TimerFire
    \/ OnIdleTimeout
    \/ OnCloseComplete
    \/ WorkerTake
    \/ DoWriteText
    \/ OnWriteComplete

SpecSession == InitSession /\ [][NextSession]_vars

\* SpecLive: one client, one pool thread, one broadcast, with the progress the
\* runtime gives: a handler that was entered returns, the io_context runs a
\* queued timer handler, and an async_close completes (the peer answers the
\* close frame or the connection fails).
EnvLive == [conns |-> 1, idleTimeout |-> defaultIdleTimeout, workers |-> 1,
            sends |-> 0, bcasts |-> MaxBroadcasts,
            frames |-> {JsonTypedRoom}, rawHandler |-> FALSE, typedHandler |-> TRUE,
              closeReasons |-> {"normal"}, writeEcs |-> {"ok"}, chatApp |-> FALSE]

InitLive == InitProgram(EnvLive) /\ LpConstructed(defaultMaxBuffer) /\ BridgeConstructed(FALSE)

NextLive ==
    \/ Accept
    \/ OnAccept
    \/ OnReadBegin
    \/ OnReadEnd
    \/ HandlerJoinRoom
    \/ HandlerLeaveRoom
    \/ HandlerLeaveAllRooms
    \/ HandlerClose
    \/ BroadcastRoomText
    \/ BroadcastText
    \/ TimerFire
    \/ OnIdleTimeout
    \/ OnCloseComplete
    \/ WorkerTake
    \/ DoWriteText
    \/ OnWriteComplete

SpecLive ==
    /\ InitLive
    /\ [][NextLive]_vars
    /\ WF_vars(OnReadEnd)
    /\ WF_vars(OnIdleTimeout)
    /\ WF_vars(OnCloseComplete)

\* SpecLP: the long-polling manager alone
InitLPSpec == InitProgram(EnvServer) /\ InitLP /\ BridgeConstructed(FALSE)

NextLP ==
    \/ LpPushTo
    \/ LpPoll
    \/ LpSweepBegin
    \/ LpSweepRun
    \/ LpTick

SpecLP == InitLPSpec /\ [][NextLP]_vars

\* SpecBridge: the bridge over a manager of the default capacity, with or
\* without the http-to-ws forward hook; pushes come from send_from_http,
\* polls and sweeps as in SpecLP.
InitBridge ==
    /\ InitProgram(EnvServer)
    /\ LpConstructed(defaultMaxBuffer)
    /\ \E httpToWs \in BOOLEAN : BridgeConstructed(httpToWs)

NextBridge ==
    \/ SendFromHttpBegin
    \/ SendFromHttpStep
    \/ LpPoll
    \/ LpSweepBegin
    \/ LpSweepRun
    \/ LpTick

SpecBridge == InitBridge /\ [][NextBridge]_vars

\* SpecApp: one client sending text frames of every shape to the dispatcher,
\* with on_message and on_typed_message registered or not, room broadcasts,
\* and HTTP clients polling the attached bridge.
EnvApp == [conns |-> 1, idleTimeout |-> defaultIdleTimeout, workers |-> 1,
           sends |-> 0, bcasts |-> MaxBroadcasts,
           frames |-> Frames, rawHandler |-> FALSE, typedHandler |-> TRUE,
           closeReasons |-> {"normal"}, writeEcs |-> {"ok"}, chatApp |-> FALSE]

InitApp ==
    /\ \E raw \in BOOLEAN, typed \in BOOLEAN :
           InitProgram([EnvApp EXCEPT !.rawHandler = raw, !.typedHandler = typed])
    /\ LpConstructed(defaultMaxBuffer)
    /\ BridgeConstructed(TRUE)

NextApp ==
    \/ Accept
    \/ OnAccept
    \/ OnReadBegin
    \/ OnReadEnd
    \/ HandlerJoinRoom
    \/ BroadcastRoomText
    \/ WorkerTake
    \/ DoWriteText
    \/ OnWriteComplete
    \/ LpPoll

SpecApp == InitApp /\ [][NextApp]_vars

(***************************************************************************)
(* Properties: per-session writes                                          *)
(***************************************************************************)
\* C1: on every session the frames are written to the socket (async_write
\* started) in the order of the send_text calls; no frame overtakes a frame
\* posted before it.
C1_WritesInSendOrder ==
    \A s \in Sessions :
        \A i, j \in 1..Len(wire[s]) : i < j => wire[s][i] < wire[s][j]

\* C2: a session never has more than one socket write in flight.
C2_OneWriteInFlight == \A s \in Sessions : inflight[s] <= 1

\* operations of session s that are executing right now: on_read running the
\* message handler on an I/O thread, do_write_text running on pool threads
OpsInProgress(s) ==
    (IF readOp[s] = "handler" THEN 1 ELSE 0)
    + Cardinality({w \in Workers : worker[w] # <<>> /\ worker[w][1].s = s})

\* C3: no two operations of one session execute at the same time.
C3_NoConcurrentSessionOps == \A s \in Sessions : OpsInProgress(s) <= 1

\* C7: frames of an earlier broadcast are written before frames of a later
\* broadcast, on every session that is sent both.
C7_BroadcastsWrittenInOrder ==
    \A s \in Sessions :
        \A i, j \in 1..Len(wire[s]) :
            LET bi == sendLog[s][wire[s][i]].b
                bj == sendLog[s][wire[s][j]].b
            IN  (i < j /\ bi > 0 /\ bj > 0) => bi <= bj

(***************************************************************************)
(* Properties: rooms and broadcasts                                        *)
(***************************************************************************)
CallsTo(calls, s) == Cardinality({i \in 1..Len(calls) : calls[i].s = s})

\* C4: one broadcast_room_text(r, t) invokes send_text(t) exactly once on every
\* live member of r (joined with join_room, not closed).
C4_RoomBroadcastOncePerMember ==
    lastBcast.kind = "room" =>
        /\ \A s \in lastBcast.live : CallsTo(lastBcast.calls, s) = 1
        /\ \A i \in 1..Len(lastBcast.calls) : lastBcast.calls[i].t = lastBcast.text

\* a room broadcast that found both clients in the room
C4_Witness ==
    /\ lastBcast.kind = "room"
    /\ Cardinality(lastBcast.live) = NumSessions
    /\ Len(lastBcast.calls) = NumSessions

\* C5: broadcast_room_text(r, t) calls send_text only on sessions that are
\* members of r at that time: not on a session that joined another room only,
\* nor on one that left r.
C5_RoomBroadcastOnlyToMembers ==
    lastBcast.kind = "room" =>
        \A i \in 1..Len(lastBcast.calls) : lastBcast.calls[i].s \in lastBcast.members

\* a room broadcast that reached a member while a live session sat in the
\* other room only
C5_Witness ==
    /\ lastBcast.kind = "room"
    /\ lastBcast.calls # <<>>
    /\ lastBcast.elsewhere # {}

\* C6: once the close handling of a session has run, the session is in no room
\* and not in the session registry, whatever happens later.
C6_ClosedSessionInNoRoom ==
    \A s \in Sessions :
        hooks[s].close > 0 =>
            /\ s \notin Range(sessions_)
            /\ \A r \in DOMAIN rooms_ : s \notin Range(rooms_[r])

(***************************************************************************)
(* Properties: long polling                                                *)
(***************************************************************************)
RECURSIVE IsSubseq(_, _)
IsSubseq(a, b) ==
    IF a = <<>> THEN TRUE
    ELSE IF b = <<>> THEN FALSE
    ELSE IF Head(a) = Head(b) THEN IsSubseq(Tail(a), Tail(b))
    ELSE IsSubseq(a, Tail(b))

\* C8: per session id, the concatenation of all poll results is an
\* order-preserving subsequence of the pushes (every push carries its own
\* number, so no envelope is returned twice).
C8_PollsSubsequenceOfPushes ==
    \A sid \in Sids : IsSubseq(lpHist.polled[sid], lpHist.pushed[sid])

\* two polls of one session id that both returned envelopes
C8_Witness ==
    /\ lpHist.last.op = "poll"
    /\ lpHist.last.out # <<>>
    /\ Len(lpHist.polled[lpHist.last.sid]) > Len(lpHist.last.out)

LastN(seq, n) == SubSeq(seq, Len(seq) - n + 1, Len(seq))

\* C9: with capacity B >= 1, after B+k pushes to one session and no poll in
\* between, a poll with max_messages >= B returns exactly the last B pushed
\* envelopes in push order, and nothing of the first k is left to return.
C9_FullDrainReturnsLastB ==
    LET last == lpHist.last
    IN  (/\ last.op = "poll"
         /\ lpB >= 1
         /\ last.max >= lpB
         /\ Len(last.run) >= lpB)
        => /\ last.out = LastN(last.run, lpB)
           /\ lpSessions[last.sid] # <<>>
           /\ lpSessions[last.sid][1].buffer = <<>>

\* B = 2, three pushes (k = 1), then a full drain
C9_Witness ==
    /\ lpHist.last.op = "poll"
    /\ lpB = 2
    /\ lpHist.last.max >= 2
    /\ Len(lpHist.last.run) = 3

RECURSIVE SumLens(_, _)
SumLens(S, sids) ==
    IF sids = {} THEN 0
    ELSE LET sid == CHOOSE x \in sids : TRUE
         IN  Len(S[sid][1].buffer) + SumLens(S, sids \ {sid})

\* C10: sweep_expired removes exactly the sessions with now - last_seen > ttl
\* (now: the time the sweep sampled), leaves the others and their buffers as
\* they were, and lowers lp_sessions_active by the number of removed sessions
\* and lp_messages_buffered by the envelopes they held.
C10_SweepRemovesExactlyExpired ==
    LET last == lpHist.last
        expired == {sid \in Sids : /\ last.S0[sid] # <<>>
                                   /\ last.now - last.S0[sid][1].lastSeen > sessionTtl}
    IN  last.op = "sweep" =>
            /\ \A sid \in Sids :
                   lpSessions[sid] = IF sid \in expired THEN <<>> ELSE last.S0[sid]
            /\ lpMetrics.lp_sessions_active
                   = last.M0.lp_sessions_active - Cardinality(expired)
            /\ lpMetrics.lp_messages_buffered
                   = last.M0.lp_messages_buffered - SumLens(last.S0, expired)
            /\ lpMetrics.lp_sessions_total = last.M0.lp_sessions_total

\* a sweep that removed a session still holding envelopes and kept another
C10_Witness ==
    /\ lpHist.last.op = "sweep"
    /\ \E gone, kept \in Sids :
           /\ lpHist.last.S0[gone] # <<>>
           /\ lpHist.last.S0[gone][1].buffer # <<>>
           /\ lpSessions[gone] = <<>>
           /\ lpSessions[kept] # <<>>

\* C11: every push_to and every poll on an existing session sets the session's
\* last_seen to the current time, also when the poll returns no envelope
\* (empty buffer or max_messages = 0).
C11_PushPollTouchLastSeen ==
    LET last == lpHist.last
    IN  (/\ last.op \in {"push", "poll"}
         /\ last.S0[last.sid] # <<>>)
        => /\ lpSessions[last.sid] # <<>>
           /\ lpSessions[last.sid][1].lastSeen = last.now

\* C12: a poll of an unknown session id returns the empty list; without
\* create_if_missing the session map and lp_sessions_total / lp_sessions_active
\* are as before, with create_if_missing exactly one new, empty session of that
\* id exists afterwards and every other session is as before.
C12_PollUnknownSession ==
    LET last == lpHist.last
    IN  (/\ last.op = "poll"
         /\ last.S0[last.sid] = <<>>)
        => /\ last.out = <<>>
           /\ ~last.create =>
                  /\ lpSessions = last.S0
                  /\ lpMetrics.lp_sessions_total = last.M0.lp_sessions_total
                  /\ lpMetrics.lp_sessions_active = last.M0.lp_sessions_active
           /\ last.create =>
                  /\ Len(lpSessions[last.sid]) = 1
                  /\ lpSessions[last.sid][1].buffer = <<>>
                  /\ \A sid \in Sids \ {last.sid} : lpSessions[sid] = last.S0[sid]

\* an unknown id polled without the flag and with max_messages > 0, next to a
\* live session
C12_Witness ==
    /\ lpHist.last.op = "poll"
    /\ lpHist.last.S0[lpHist.last.sid] = <<>>
    /\ \E other \in Sids : lpHist.last.S0[other] # <<>>
    /\ ~lpHist.last.create
    /\ lpHist.last.max > 0

(***************************************************************************)
(* Properties: long-polling bridge                                         *)
(***************************************************************************)
\* C13: send_from_http(sid, e) enqueues e into session sid, creating the
\* session if absent; with the forward hook set it invokes the hook exactly
\* once with e and after the enqueue, without the hook only the enqueue happens.
C13_SendFromHttpEnqueuesThenForwards ==
    /\ \A i \in 1..Len(bridge.call) :
           \A j \in 1..Len(bridge.call[i].fwd) : bridge.call[i].fwd[j].enqueued
    /\ \A i \in 1..Len(bridge.last) :
           LET c == bridge.last[i]
           IN  /\ c.enq = 1
               /\ c.msg \in Range(lpHist.pushed[c.sid])
               /\ Len(c.sessAfter) = 1
               /\ lpB >= 1 => c.sessAfter[1].buffer[Len(c.sessAfter[1].buffer)] = c.msg
               /\ c.fwd = IF bridge.httpToWs
                          THEN <<[msg |-> c.msg, enqueued |-> TRUE]>> ELSE <<>>

\* a call with the hook set that returned after creating the session
C13_Witness ==
    /\ bridge.httpToWs
    /\ bridge.last # <<>>
    /\ Len(bridge.last[1].fwd) = 1
    /\ Len(lpHist.pushed[bridge.last[1].sid]) = 1

\* C14: every text broadcast to room r with broadcast_room_text reaches the
\* HTTP pollers of "room:<r>": a poll of that session with max_messages at
\* least the number of broadcasts not yet returned completes the poll results
\* to exactly the broadcast texts in broadcast order (so after t1, t2 the poll
\* returns [t1, t2] and the next poll returns the empty list).
C14_RoomBroadcastsReachPollers ==
    [][\A r \in Rooms :
           LET sid == "room:" \o r
           IN  (/\ sid \in Sids
                /\ lpHist'.polls = lpHist.polls + 1
                /\ lpHist'.last.sid = sid
                /\ lpHist'.last.max >= Len(bcastLog[r]) - Len(lpHist.polled[sid]))
               => lpHist'.polled[sid] = bcastLog[r]]_vars

(***************************************************************************)
(* Properties: dispatcher                                                  *)
(***************************************************************************)
\* the frame is not a JSON object, or its type is missing or empty
EnvelopeInvalid(f) ==
    \/ f.json # "object"
    \/ "type" \notin DOMAIN f.fields
    \/ f.fields["type"] = ""

\* C15: a text frame that is not a JSON object, or whose type is missing or
\* empty, is discarded: no application message handler is invoked for it,
\* nothing is pushed to the long-poll bridge and errors_total grows by 1.
C15_InvalidEnvelopeDiscarded ==
    \A s \in Sessions :
        (/\ readOp[s] = "handler"
         /\ disp[s] # <<>>
         /\ EnvelopeInvalid(disp[s][1].frame))
        => /\ disp[s][1].raw = 0
           /\ disp[s][1].typed = <<>>
           /\ lpHist.pushed = disp[s][1].pushed0
           /\ errors_total = disp[s][1].errors0 + 1

\* C16: for a text frame that parses to a valid envelope the dispatcher pushes
\* the envelope once to the bridge session "room:<room>" (or "broadcast" when
\* the room is empty) and invokes the typed handler once with (type, payload).
C16_ValidEnvelopePushedThenHandled ==
    \A s \in Sessions :
        (/\ readOp[s] = "handler"
         /\ disp[s] # <<>>
         /\ env.typedHandler
         /\ ~EnvelopeInvalid(disp[s][1].frame))
        => LET d == disp[s][1]
               room == IF "room" \in DOMAIN d.frame.fields THEN d.frame.fields["room"] ELSE ""
               sid == resolve_session_id([room |-> room])
           IN  /\ Len(lpHist.pushed[sid]) = Len(d.pushed0[sid]) + 1
               /\ \A other \in Sids \ {sid} : lpHist.pushed[other] = d.pushed0[other]
               /\ d.typed = <<[type |-> d.frame.fields["type"],
                               payload |-> parse(d.frame)[1].payload]>>

(***************************************************************************)
(* Properties: session lifecycle                                           *)
(***************************************************************************)
\* C17: on a successful handshake the open hook runs exactly once, the session
\* is in the global registry (until its close handling), and the idle timer is
\* armed before the first frame is read; on a failed handshake the error hook
\* runs, neither the open nor the close hook runs and the session is never
\* registered.
C17_HandshakeOutcome ==
    \A s \in Sessions :
        /\ hs[s] = "open" =>
               /\ hooks[s].open = 1
               /\ hooks[s].close = 0 => s \in Range(sessions_)
               /\ (/\ disp[s] = <<>>
                   /\ readOp[s] = "pending"
                   /\ ~closing_[s]
                   /\ timerFired[s] = 0) => timerArmed[s]
        /\ hs[s] = "failed" =>
               /\ hooks[s].error = 1
               /\ hooks[s].open = 0
               /\ hooks[s].close = 0
               /\ s \notin Range(sessions_)
        /\ hs[s] \in {"none", "handshake"} =>
               /\ hooks[s] = [open |-> 0, close |-> 0, error |-> 0]
               /\ s \notin Range(sessions_)

\* a session past its handshake, waiting for its first frame
C17_Witness ==
    \E s \in Sessions :
        /\ hs[s] = "open"
        /\ disp[s] = <<>>
        /\ readOp[s] = "pending"
        /\ timerArmed[s]
        /\ s \in Range(sessions_)

\* the close handling of s has run: the close hook was invoked and s is in no
\* room and not in the registry
Closed(s) ==
    /\ hooks[s].close >= 1
    /\ s \notin Range(sessions_)
    /\ \A r \in DOMAIN rooms_ : s \notin Range(rooms_[r])

C19_CloseHookOnce ==
    \A s \in Sessions :
        /\ hooks[s].close <= 1
        /\ hooks[s].open - hooks[s].close >= 0

\* C20: the idle timer closes a session, with close code normal, only when it
\* expired with no frame read since it was last armed; every frame read cancels
\* the wait and re-arms the timer when its handler returns, so an open session
\* waiting for a frame always has its timer running (or already expired).
C20_IdleCloseOnlyWithoutRead ==
    /\ [][\A s \in Sessions :
              (/\ timerFired'[s] < timerFired[s]
               /\ ~closing_[s]
               /\ closing_'[s])
              => /\ idleHist[s].unreadAtExpiry
                 /\ closeOp'[s]
                 /\ idleHist'[s].closeCode = <<"normal">>]_vars
    /\ [](\A s \in Sessions :
              /\ timerArmed[s] => ~idleHist[s].readSinceArm
              /\ (/\ hs[s] = "open"
                  /\ readOp[s] = "pending"
                  /\ ~closing_[s]
                  /\ timerFired[s] = 0) => timerArmed[s])

\* a session that read a frame, had its timer re-armed, and was then closed by
\* the expiry of that wait (closing_ set while the next read is outstanding)
C20_Witness ==
    \E s \in Sessions :
        /\ disp[s] # <<>>
        /\ readOp[s] = "pending"
        /\ closing_[s]
        /\ idleHist[s].closeCode = <<"normal">>

\* SpecWrite: one client whose handler replies with send_text, one pool
\* thread, and writes that complete with or without an error.
EnvWrite == [conns |-> 1, idleTimeout |-> defaultIdleTimeout, workers |-> 1,
             sends |-> WriteSends, bcasts |-> 0,
             frames |-> {JsonTypedRoom}, rawHandler |-> FALSE, typedHandler |-> TRUE,
             closeReasons |-> {"normal"}, writeEcs |-> {"ok", "error"}, chatApp |-> FALSE]

InitWrite == InitProgram(EnvWrite) /\ LpConstructed(defaultMaxBuffer) /\ BridgeConstructed(FALSE)

NextWrite ==
    \/ Accept
    \/ OnAccept
    \/ OnReadBegin
    \/ OnReadEnd
    \/ HandlerSendText
    \/ HandlerClose
    \/ OnCloseComplete
    \/ WorkerTake
    \/ DoWriteText
    \/ OnWriteComplete

SpecWrite == InitWrite /\ [][NextWrite]_vars

(***************************************************************************)
(* C21: once an async_write of a session has completed with an error, the  *)
(* session is CLOSING (closing_ is set, so no later frame is written) and  *)
(* no frame of that session is pending in the executor any more.           *)
(***************************************************************************)
C21_WriteErrorClosesSession ==
    \A s \in Sessions :
        writeErr[s] =>
            /\ closing_[s]
            /\ \A i \in 1..Len(execQueue) : execQueue[i].s # s
            /\ \A w \in Workers : worker[w] # <<>> => worker[w][1].s # s

\* SpecStore: the message store alone, under a wall clock that is not steady
NextStore ==
    \/ ClockStep
    \/ StoreAppend
    \/ StoreListByRoom
    \/ StoreReplayFrom
    \/ StorePageThrough

InitStore ==
    InitProgram(EnvServer) /\ LpConstructed(defaultMaxBuffer) /\ BridgeConstructed(FALSE)

SpecStore == InitStore /\ [][NextStore]_vars

\* SpecChat: one client of the chat application sending chat.join, chat.leave
\* and chat.message frames, a store whose appends succeed or fail, a wall
\* clock that moves, one pool thread.
EnvChat == [conns |-> 1, idleTimeout |-> defaultIdleTimeout, workers |-> 1,
            sends |-> 0, bcasts |-> MaxChat,
            frames |-> ChatFrames, rawHandler |-> FALSE, typedHandler |-> TRUE,
            closeReasons |-> {"normal"}, writeEcs |-> {"ok"}, chatApp |-> TRUE]

InitChat ==
    InitProgram(EnvChat) /\ LpConstructed(defaultMaxBuffer) /\ BridgeConstructed(FALSE)

NextChat ==
    \/ Accept
    \/ OnAccept
    \/ OnReadBegin
    \/ ChatHandler
    \/ OnReadEnd
    \/ ClockStep
    \/ WorkerTake
    \/ DoWriteText
    \/ OnWriteComplete

SpecChat == InitChat /\ [][NextChat]_vars

(***************************************************************************)
(* Properties: message store                                               *)
(***************************************************************************)
\* C22: the ids given to envelopes appended with an empty id grow strictly, in
\* lexicographic order, from one append call to the next, also when two
\* appends fall in the same microsecond or the wall clock is set back.
C22_AssignedIdsIncrease ==
    \A i \in 1..Len(stHist.assigned), j \in 1..Len(stHist.assigned) :
        i < j => LexLess(stHist.assigned[i], stHist.assigned[j])

\* the rows a list_by_room(room, limit, before_id) call may return
Qualifying(room, before_id) ==
    {r \in store : /\ r.room # <<>>
                   /\ r.room[1] = room
                   /\ before_id # <<>> => LexLess(r.id, before_id[1])}

\* C23: list_by_room(r, n, before_id) returns only rows of room r (with
\* id < before_id when it is given), at most n of them, in strictly descending
\* id order, and they are the n rows of greatest id among those.
C23_ListByRoomNewestFirst ==
    stHist.last.op = "list_by_room" =>
        LET q == stHist.last
            out == q.out
            qual == Qualifying(q.room, q.before_id)
        IN  /\ Len(out) <= q.limit
            /\ Len(out) = Min(q.limit, Cardinality(qual))
            /\ \A i \in 1..Len(out) :
                   /\ out[i].room = q.room
                   /\ \E r \in qual : r.id = out[i].id
            /\ \A i \in 1..Len(out), j \in 1..Len(out) :
                   i < j => LexLess(out[j].id, out[i].id)
            /\ \A r \in qual :
                   (\A i \in 1..Len(out) : out[i].id # r.id)
                       => \A i \in 1..Len(out) : LexLess(r.id, out[i].id)

C23_Witness ==
    /\ stHist.last.op = "list_by_room"
    /\ stHist.last.before_id # <<>>
    /\ stHist.last.limit = 1
    /\ Len(stHist.last.out) = 1
    /\ Cardinality(Qualifying(stHist.last.room, stHist.last.before_id)) = 2
    /\ \E r \in store : r \notin Qualifying(stHist.last.room, stHist.last.before_id)

\* C24: replay_from(x, n) returns only rows with id > x, at most n of them, in
\* strictly ascending id order whatever their room, and they are the n rows of
\* smallest id among those.
C24_ReplayFromOldestFirst ==
    stHist.last.op = "replay_from" =>
        LET q == stHist.last
            out == q.out
            qual == {r \in store : LexLess(q.start_id, r.id)}
        IN  /\ Len(out) <= q.limit
            /\ Len(out) = Min(q.limit, Cardinality(qual))
            /\ \A i \in 1..Len(out) : \E r \in qual : r.id = out[i].id
            /\ \A i \in 1..Len(out), j \in 1..Len(out) :
                   i < j => LexLess(out[i].id, out[j].id)
            /\ \A r \in qual :
                   (\A i \in 1..Len(out) : out[i].id # r.id)
                       => \A i \in 1..Len(out) : LexLess(out[i].id, r.id)

C24_Witness ==
    /\ stHist.last.op = "replay_from"
    /\ stHist.last.start_id # <<>>
    /\ stHist.last.limit = 1
    /\ Len(stHist.last.out) = 1
    /\ Cardinality({r \in store : LexLess(stHist.last.start_id, r.id)}) = 2
    /\ \E r \in store : ~LexLess(stHist.last.start_id, r.id)
    /\ \E r, q \in store : r.room # q.room

(***************************************************************************)
(* Properties: the chat application                                        *)
(***************************************************************************)
\* C25: when store.append fails while a message is handled, errors_total is
\* incremented, the broadcast of that message still takes place, and the
\* session and the server go on processing frames (the read is re-armed, no
\* I/O thread is lost).
C25_StoreFailureRecovered ==
    \A s \in Sessions :
        (chat[s] # <<>> /\ chat[s][1].threw) =>
            /\ errors_total = chat[s][1].errors0 + 1
            /\ chat[s][1].bcast # <<>>
            /\ readOp[s] \in {"handler", "pending"}
            /\ ioExited = 0

\* C26: on chat.join for room r the joining session is sent the stored
\* envelopes of r that list_by_room returned (the HISTORY_LIMIT most recent,
\* newest first), each with kind = "history", and after them the chat.system
\* envelope that is broadcast to r.
C26_JoinSendsHistoryThenSystem ==
    \A s \in Sessions :
        (/\ chat[s] # <<>>
         /\ chat[s][1].type = "chat.join"
         /\ chat[s][1].room # ""
         /\ ~chat[s][1].threw
         /\ ~closing_[s]) =>
            LET c == chat[s][1]
                n == Len(c.history)
            IN  /\ Len(c.sent) = n + 1
                /\ \A i \in 1..n :
                       /\ c.sent[i].b = 0
                       /\ c.sent[i].t.fields["id"] = c.history[i].id
                       /\ c.sent[i].t.fields["kind"] = "history"
                /\ c.sent[n + 1].b > 0
                /\ c.sent[n + 1].t.fields["type"] = "chat.system"

\* C27: a chat.message with a non-empty room and a non-empty text is appended
\* to the store and broadcast to that room; one with an empty room or an empty
\* text is neither stored nor sent to any session.
C27_ChatMessageNeedsRoomAndText ==
    \A s \in Sessions :
        (/\ chat[s] # <<>>
         /\ chat[s][1].type = "chat.message"
         /\ ~chat[s][1].threw) =>
            LET c == chat[s][1]
            IN  IF c.room # "" /\ c.text # ""
                THEN /\ c.appended # <<>>
                     /\ c.appended[1].room = c.room
                     /\ c.bcast # <<>>
                     /\ c.bcast[1].kind = "room"
                     /\ c.bcast[1].room = c.room
                ELSE /\ c.appended = <<>>
                     /\ c.bcast = <<>>
                     /\ c.sent = <<>>

\* SpecProto: JsonMessage::serialize followed by JsonMessage::parse on
\* envelopes with every optional field empty or set and payloads of zero, one
\* or two members of every kind of value.
PayloadValues ==
    {JStr("hi"), JInt("1"), JDbl("1.5"), JBool("true"), JNull,
     TKvs(<<JStr("n"), JInt("1")>>), JArr(<<JInt("1"), JStr("hi")>>)}

Payloads ==
    {<<>>}
        \cup {<<JStr("text"), v>> : v \in PayloadValues}
        \cup {<<JStr("text"), v, JStr("n"), JInt("1")>> : v \in PayloadValues}

Envelopes ==
    {[id |-> id, kind |-> kind, ts |-> ts, room |-> room, type |-> "chat.message",
      payload |-> pl] :
        id \in {"", "m1"}, kind \in {"", "event"}, ts \in {"", "2025-12-07T10:15:30Z"},
        room \in {"", "a"}, pl \in Payloads}

RoundTrip ==
    \E E \in Envelopes :
        /\ proto' = <<[in |-> E, text |-> serialize(E), out |-> parse(serialize(E))]>>
        /\ UNCHANGED <<wsVars, lpVars, brVars, stVars, chVars, clVars, rtVars>>

InitProto ==
    InitProgram(EnvServer) /\ LpConstructed(defaultMaxBuffer) /\ BridgeConstructed(FALSE)

NextProto == RoundTrip

SpecProto == InitProto /\ [][NextProto]_vars

(***************************************************************************)
(* Properties: the JSON envelope                                           *)
(***************************************************************************)
\* the members of a payload, whatever their order
Members(kvs) == {<<kvs[2 * i - 1], kvs[2 * i]>> : i \in 1..(Len(kvs) \div 2)}

\* the kinds of payload value C28 speaks of
ClaimedValue(v) == v.t \in {"string", "int", "bool", "null", "object", "array"}

\* C28: for every valid envelope E whose payload values are strings, integers,
\* booleans, null, nested payloads or lists, parse(serialize(E)) is E up to
\* the order of the payload's members, and serialize omits an empty id, kind,
\* ts or room.
C28_ParseSerializeRoundTrip ==
    (/\ proto # <<>>
     /\ \A m \in Members(proto[1].in.payload) : ClaimedValue(m[2])) =>
        LET E == proto[1].in
            out == proto[1].out
        IN  /\ \A k \in {"id", "kind", "ts", "room"} :
                   (k \in DOMAIN proto[1].text.fields) <=> (E[k] # "")
            /\ out # <<>>
            /\ \A k \in {"id", "kind", "ts", "room", "type"} : out[1][k] = E[k]
            /\ Members(out[1].payload) = Members(E.payload)


\* ---- the client: connect, traffic, errors, reconnect threads, heartbeat ----
\* the threads of the client keep running: the reconnect thread's sleep ends,
\* its connect() proceeds, a join returns once the joined thread has ended
InitClient ==
    /\ InitWS(EnvServer) /\ StoreConstructed /\ ChatInstalled /\ proto = <<>>
    /\ LpConstructed(defaultMaxBuffer) /\ BridgeConstructed(FALSE) /\ RuntimeAttached
    /\ \E autoReconnect \in BOOLEAN, heartbeat \in BOOLEAN :
           ClientCreated(autoReconnect, heartbeat)

NextClient ==
    \/ ClConnect
    \/ ClOnResolve
    \/ ClOnConnect
    \/ ClOnHandshake
    \/ ClOnRead
    \/ ClSendText
    \/ ClSendPosted
    \/ ClOnWrite
    \/ ClHeartbeat
    \/ ClOnPing
    \/ ClHeartbeatExit
    \/ ClClose
    \/ ClWake
    \/ ClReconnect
    \/ ClInitIo
    \/ ClJoinHeartbeat

FairClient ==
    /\ WF_vars(ClWake)
    /\ WF_vars(ClReconnect)
    /\ WF_vars(ClInitIo)
    /\ WF_vars(ClJoinHeartbeat)
    /\ WF_vars(ClHeartbeatExit)

SpecClient == InitClient /\ [][NextClient]_vars /\ FairClient


(***************************************************************************)
(* Properties: the client's reconnect                                      *)
(***************************************************************************)
\* the reconnect threads that were scheduled and have not finished connect()
Threads == {i \in Reconnects : reconn[i] # "none"}

\* a connection started by a reconnect is still being established
Establishing ==
    /\ client.attempts > 1
    /\ client.ioRunning
    /\ client.ops \cap {"resolve", "connect", "handshake"} # {}

\* this step schedules a reconnect
Scheduled == \E i \in Reconnects : reconn[i] = "none" /\ reconn'[i] = "sleep"

\* this step is a reconnect starting its connection
Started == client.attempts >= 1 /\ client'.attempts > client.attempts

\* C29: with auto-reconnect enabled, a completion handler that gets an error
\* other than a normal peer close schedules a reconnect, one that gets a
\* normal peer close schedules none, and at most one reconnect is in flight:
\* none is scheduled or started while another is pending or while the
\* connection a reconnect started is still being established.
C29_OneReconnectInFlight ==
    [][ (client.autoReconnect /\ ~client.closeCalled) =>
            /\ (clEc' = "error" /\ Threads = {}) => Scheduled
            /\ clEc' \in {"closed", "ok", "none"} => ~Scheduled
            /\ Scheduled => (Threads = {} /\ ~Establishing')
            /\ Started => (Cardinality(Threads) = 1 /\ ~Establishing) ]_vars

\* C30: with auto-reconnect enabled and close() never called, after an
\* established connection failed with a read or write error the client
\* starts a new connection attempt, with the heartbeat enabled or not.
C30_ReconnectAfterLoss ==
    (client.lost /\ client.autoReconnect /\ ~client.closeCalled)
        ~> (~client.lost \/ client.closeCalled)


\* C31: the client starts its socket writes in send_text call order, at most
\* one write is outstanding, a text leaves the queue only when its own write
\* has completed, and while a write is outstanding the text being written is
\* still the front of the queue.
C31_ClientWritesInOrder ==
    /\ Len(client.writing) <= 1
    /\ IsSubseq(client.wrote, client.calls)
    /\ \A i \in 1..Len(client.pops) : client.pops[i][1] = client.pops[i][2]
    /\ client.writing # <<>> =>
           (client.writeQueue # <<>> /\ Head(client.writeQueue) = client.writing[1])

C31_Witness ==
    /\ client.writing # <<>>
    /\ Len(client.writeQueue) >= 2
    /\ Len(client.pops) >= 1
    /\ Len(client.wrote) >= 2


\* SpecRooms: the server with NumSessions clients whose handlers join and
\* leave rooms and close, with broadcasts; websocket.idleTimeout = 0 turns
\* the idle timer off.
EnvRooms == [conns |-> NumSessions, idleTimeout |-> 0, workers |-> 1,
             sends |-> 0, bcasts |-> MaxBroadcasts,
             frames |-> {JsonTypedRoom}, rawHandler |-> FALSE, typedHandler |-> TRUE,
             closeReasons |-> {"normal"}, writeEcs |-> {"ok"}, chatApp |-> FALSE]

InitRooms ==
    InitProgram(EnvRooms) /\ LpConstructed(defaultMaxBuffer) /\ BridgeConstructed(FALSE)

NextRooms ==
    \/ Accept
    \/ OnAccept
    \/ OnReadBegin
    \/ OnReadEnd
    \/ HandlerJoinRoom
    \/ HandlerLeaveRoom
    \/ HandlerLeaveAllRooms
    \/ HandlerClose
    \/ BroadcastRoomText
    \/ BroadcastText
    \/ OnCloseComplete
    \/ WorkerTake
    \/ DoWriteText
    \/ OnWriteComplete

SpecRooms == InitRooms /\ [][NextRooms]_vars

(***************************************************************************)
(* Properties: room membership                                             *)
(***************************************************************************)
\* C32: join_room(s, r) is idempotent: however often s joined r, the room
\* holds s once; joining again leaves every room as it is; and a broadcast to
\* r calls send_text on a member once.
C32_JoinRoomIdempotent ==
    /\ \A r \in DOMAIN rooms_ : \A s \in Sessions : Count(rooms_[r], s) <= 1
    /\ \A s \in Sessions : \A r \in Rooms :
           InHandler(s) =>
               /\ Count(join_room(rooms_, s, r)[r], s) = 1
               /\ join_room(join_room(rooms_, s, r), s, r) = join_room(rooms_, s, r)
               /\ (r \in DOMAIN rooms_ /\ Count(rooms_[r], s) = 1) =>
                      \A q \in DOMAIN rooms_ :
                          SelectSeq(rooms_[q], LAMBDA x : Alive(x))
                              = (IF q \in DOMAIN join_room(rooms_, s, r)
                                 THEN join_room(rooms_, s, r)[q] ELSE <<>>)
    /\ lastBcast.kind = "room" =>
           /\ \A s \in Sessions : CallsTo(lastBcast.calls, s) <= 1
           /\ \A s \in lastBcast.live : CallsTo(lastBcast.calls, s) = 1

\* a member of a room that holds both clients is in its handler, where it can
\* join the room again, after a broadcast to the room reached it
C32_Witness ==
    \E s \in Sessions : \E r \in Rooms :
        /\ InHandler(s)
        /\ r \in DOMAIN rooms_
        /\ Count(rooms_[r], s) = 1
        /\ Len(rooms_[r]) = NumSessions
        /\ lastBcast.kind = "room" /\ lastBcast.room = r
        /\ CallsTo(lastBcast.calls, s) = 1


\* the members of room r in the map R that still exist, in their order
LiveIn(R, r) == IF r \in DOMAIN R THEN SelectSeq(R[r], LAMBDA x : Alive(x)) ELSE <<>>

\* C33: leave_room(s, r) removes s from r and leaves every other room and
\* every other live member of r as they were; and whatever joins, leaves,
\* broadcasts and closes happened, no room key maps to an empty member list.
C33_LeaveRoomAndNoEmptyRoom ==
    /\ \A r \in DOMAIN rooms_ : rooms_[r] # <<>>
    /\ \A s \in Sessions : \A r \in Rooms :
           InHandler(s) =>
               /\ s \notin Range(LiveIn(leave_room(rooms_, s, r), r))
               /\ LiveIn(leave_room(rooms_, s, r), r)
                      = SelectSeq(LiveIn(rooms_, r), LAMBDA x : x # s)
               /\ \A q \in Rooms \ {r} :
                      /\ (q \in DOMAIN leave_room(rooms_, s, r)) <=> (q \in DOMAIN rooms_)
                      /\ q \in DOMAIN rooms_ => leave_room(rooms_, s, r)[q] = rooms_[q]
               /\ \A q \in DOMAIN leave_room(rooms_, s, r) :
                      leave_room(rooms_, s, r)[q] # <<>>
               /\ \A q \in DOMAIN remove_session_from_all_rooms_locked(rooms_, s) :
                      remove_session_from_all_rooms_locked(rooms_, s)[q] # <<>>

\* a session in its handler is the only member of one room while the other
\* client sits in the other room: leaving must erase the one key and keep
\* the other
C33_Witness ==
    \E s \in Sessions : \E r \in Rooms :
        /\ InHandler(s)
        /\ r \in DOMAIN rooms_
        /\ rooms_[r] = <<s>>
        /\ \E q \in DOMAIN rooms_ \ {r} : s \notin Range(rooms_[q])
        /\ bcastCount > 0


\* SpecRuntime: an attached runtime whose stop() is called by several threads
\* while wsThread_ runs listen_blocking
InitRuntime ==
    InitProgram(EnvServer) /\ LpConstructed(defaultMaxBuffer) /\ BridgeConstructed(FALSE)

NextRuntime ==
    \/ RtListenStart
    \/ RtListenLoopExit
    \/ RtCallStop
    \/ RtStopAsync
    \/ RtIoFinish
    \/ RtJoinBegin
    \/ RtJoinEnd
    \/ RtJoinWs

SpecRuntime == InitRuntime /\ [][NextRuntime]_vars

(***************************************************************************)
(* Properties: the attached runtime                                        *)
(***************************************************************************)
\* C34: however often and from however many threads AttachedRuntime::stop is
\* called while wsThread_ runs listen_blocking, the server's stop-and-join
\* sequence (stop_async, then join_threads) is performed once, and never by
\* two threads at the same time.
C34_StopAndJoinOnce ==
    /\ rt.stops <= 1
    /\ Cardinality(InStopSequence) <= 1

(***************************************************************************)
(* Properties: long-polling gauges and buffer bound                        *)
(***************************************************************************)
LpLive == {sid \in Sids : LpExists(lpSessions, sid)}

\* C35: after any sequence of push_to, poll and sweep_expired calls,
\* lp_sessions_active is the number of existing sessions and
\* lp_messages_buffered the number of envelopes held in all buffers; neither
\* gauge goes below zero
C35_GaugesMatchState ==
    /\ lpMetrics.lp_sessions_active = Cardinality(LpLive)
    /\ lpMetrics.lp_messages_buffered = SumBuffers(lpSessions, LpLive)
    /\ lpMetrics.lp_sessions_active >= 0
    /\ lpMetrics.lp_messages_buffered >= 0

\* a sweep has erased a session that held envelopes while another session
\* still holds some, after a poll drained part of a buffer
C35_Witness ==
    /\ lpHist.last.op = "sweep"
    /\ \E sid \in SweepVictims(lpHist.last.S0, sessionTtl, lpHist.last.now) :
            lpHist.last.S0[sid][1].buffer # <<>>
    /\ lpMetrics.lp_messages_buffered >= 1
    /\ lpMetrics.lp_messages_drained_total >= 1
    /\ lpMetrics.lp_sessions_active = 1

\* C36: every session buffer holds at most maxBufferPerSession envelopes,
\* for every maxBufferPerSession >= 0 and any order of push_to, poll and
\* sweep_expired
C36_BufferAtMostB ==
    \A sid \in LpLive : Len(lpSessions[sid][1].buffer) <= lpB

\* push_to has just run on a session whose buffer was already full
C36_Witness ==
    /\ lpHist.last.op = "push"
    /\ LpExists(lpHist.last.S0, lpHist.last.sid)
    /\ Len(lpHist.last.S0[lpHist.last.sid][1].buffer) = lpB
    /\ LpExists(lpSessions, lpHist.last.sid)
    /\ Len(lpSessions[lpHist.last.sid][1].buffer) = lpB

(***************************************************************************)
(* Properties: message store, generated ids and paging                     *)
(***************************************************************************)
\* the rows whose id was generated by append
GeneratedRows == {r \in store : \E i \in 1..Len(stHist.assigned) : stHist.assigned[i] = r.id}

\* C37: an append with an empty id never replaces or removes a row: after n
\* such appends the store holds n rows more, each with an id of its own
C37_EmptyIdAppendAddsRow ==
    /\ Cardinality(GeneratedRows) = Len(stHist.assigned)
    /\ \A i \in 1..Len(stHist.assigned), j \in 1..Len(stHist.assigned) :
           i # j => stHist.assigned[i] # stHist.assigned[j]

RECURSIVE Flatten(_)
Flatten(pages) == IF pages = <<>> THEN <<>> ELSE Head(pages) \o Flatten(Tail(pages))

\* C38: paging through a room with list_by_room(r, n) and then
\* list_by_room(r, n, before_id = id of the last row of the page before),
\* n >= 1 and nothing appended meanwhile, returns every stored row of room r
\* exactly once, in descending id order overall, and ends with an empty page
C38_PagingReturnsRoomOnce ==
    stHist.last.op = "paging" =>
        LET q == stHist.last
            all == Flatten(q.pages)
            inRoom == {r \in store : r.room = <<q.room>>}
        IN  /\ q.pages[Len(q.pages)] = <<>>
            /\ \A p \in 1..(Len(q.pages) - 1) :
                   q.pages[p] # <<>> /\ Len(q.pages[p]) <= q.limit
            /\ Len(all) = Cardinality(inRoom)
            /\ \A r \in inRoom :
                   Cardinality({i \in 1..Len(all) : all[i] = RowToMessage(r)}) = 1
            /\ \A i \in 1..Len(all), j \in 1..Len(all) :
                   i < j => LexLess(all[j].id, all[i].id)

\* three pages of one row, one row and none, for a room of two rows in a
\* store that holds a row of another room as well
C38_Witness ==
    /\ stHist.last.op = "paging"
    /\ stHist.last.limit = 1
    /\ Len(stHist.last.pages) = 3
    /\ Cardinality({r \in store : r.room = <<stHist.last.room>>}) = 2
    /\ \E r \in store : r.room # <<stHist.last.room>>

(***************************************************************************)
(* Properties: the client's close and write flag                           *)
(***************************************************************************)
\* C39: once close() has been called no handshake completes and the open
\* callback is not invoked any more, whatever a pending or running reconnect
\* thread does
C39_NoOpenAfterClose == ~client.openedAfterClose

\* C40: while the client is not closing, writeInProgress_ is true only when
\* an async_write is in flight (the next one is started in the same handler
\* that ends the one before), so that a text queued by send_text is never
\* left waiting behind a write that does not exist
C40_WriteFlagMeansWrite ==
    (client.writeInProgress /\ ~client.closing /\ ~client.closeCalled)
        => client.writing # <<>>

====
